---- MODULE Spec2Model ----
(***************************************************************************)
(* Model of the authentication core of the dashboard template:             *)
(*   - the Data Access Layer (verifySession, requireRole, getSecureData,   *)
(*     getUserTenantData), sifrex-frontend/src/lib/auth/dal.ts and its     *)
(*     three-tier copy src/template-frontend/src/lib/dal.ts;               *)
(*   - the rate limiter, src/template-frontend/src/lib/rate-limiting.ts;   *)
(*   - the credential verifier authorize, sifrex-frontend/auth.config.ts;  *)
(*   - the edge request filter, src/template-frontend/src/middleware.ts    *)
(*     and its two other copies.                                           *)
(*                                                                         *)
(* JavaScript values are modelled as follows.  A string-valued slot that   *)
(* may be undefined holds either a string or Undefined; the empty string   *)
(* is a value of its own, and Truthy is JavaScript truthiness.  A string   *)
(* that the code searches (DATABASE_URL) is a tuple of one-character       *)
(* strings, so that includes() is a real substring test.                   *)
(***************************************************************************)
EXTENDS Integers, Sequences, FiniteSets, TLC

(***************************************************************************)
(* JavaScript values                                                       *)
(***************************************************************************)
Undefined == "<undefined>"

Truthy(v) == v # Undefined /\ v # ""

\* a || d
OrDefault(v, d) == IF Truthy(v) THEN v ELSE d

\* String.prototype.includes on tuples of characters
Includes(s, p) ==
    \E i \in 1..(Len(s) + 1) :
        /\ i + Len(p) - 1 <= Len(s)
        /\ \A j \in 1..Len(p) : s[i + j - 1] = p[j]

LOCALHOST == <<"l", "o", "c", "a", "l", "h", "o", "s", "t">>

\* an optional searched string: undefined, or a tuple of characters
UndefinedUrl == [defined |-> FALSE, chars |-> <<>>]

Url(cs) == [defined |-> TRUE, chars |-> cs]

\* process.env.DATABASE_URL?.includes('localhost')
UrlIncludes(u, p) == u.defined /\ Includes(u.chars, p)

PREFIX == <<"d", "b", ":", "/", "/">>

\* db://localhost/a, db://prod.io/a, db://localhos/t, db://prod.io/localhost, ""
DatabaseUrls ==
    { UndefinedUrl,
      Url(<<>>),
      Url(PREFIX \o LOCALHOST \o <<"/", "a">>),
      Url(PREFIX \o <<"p", "r", "o", "d", ".", "i", "o", "/", "a">>),
      Url(PREFIX \o <<"l", "o", "c", "a", "l", "h", "o", "s", "/", "t">>),
      Url(PREFIX \o <<"p", "r", "o", "d", ".", "i", "o", "/">> \o LOCALHOST) }

(***************************************************************************)
(* Roles                                                                   *)
(***************************************************************************)
\* the six-tier table of sifrex-frontend
roleHierarchy ==
    [r \in {"BASIC", "PLUS", "PREMIUM", "PREMIUM_PLUS", "ADMIN", "SUPER_ADMIN"} |->
        CASE r = "BASIC" -> 0
          [] r = "PLUS" -> 1
          [] r = "PREMIUM" -> 2
          [] r = "PREMIUM_PLUS" -> 3
          [] r = "ADMIN" -> 4
          [] r = "SUPER_ADMIN" -> 5]

\* the three-tier table of template-frontend
roleHierarchy3 ==
    [r \in {"USER", "ADMIN", "SUPER_ADMIN"} |->
        CASE r = "USER" -> 0
          [] r = "ADMIN" -> 1
          [] r = "SUPER_ADMIN" -> 2]

\* the table of the copy in use
Hierarchy(tier) == IF tier = 6 THEN roleHierarchy ELSE roleHierarchy3

Tiers == {3, 6}

\* Object.keys(roleHierarchy)
Labels(tier) == DOMAIN Hierarchy(tier)

\* role values a token or DEV_USER_ROLE can carry: every label of both
\* tables, a label of neither, the empty string and undefined
RoleValues == Labels(6) \cup Labels(3) \cup {"GUEST", "", Undefined}

(***************************************************************************)
(* State                                                                   *)
(***************************************************************************)
VARIABLES
    env,        \* process.env of the server process
    tier,       \* which copy of the DAL runs: 6 (sifrex-frontend) or 3 (template-frontend)
    locale,     \* locale of the request being served
    session,    \* what auth() yields for the request
    memo,       \* React cache() of verifySession for the request
    pc,         \* position of the DAL operation being executed
    op,         \* the DAL operation being executed
    vs,         \* the record verifySession gave to the operation
    outcome,    \* how the last DAL operation ended
    log,        \* calls made and console output of the operation, in order
    seen,       \* per request: runs of auth() and the results verifySession gave (history)
    store,      \* the in-memory rate-limit store, by identifier
    now,        \* Date.now()
    ticks,      \* number of clock advances so far
    users,      \* the identity table, by email
    window,     \* per identifier: start of its current window and calls made in it (history)
    lastCheck,  \* identifier and result of the latest checkRateLimit call
    fresh,      \* per identifier: resetRateLimit was the latest call made for it (history)
    aPc,        \* per authorize call: its position
    aParsed,    \* per authorize call: parsedCredentials.data
    aRate,      \* per authorize call: rateLimitResult
    aUser,      \* per authorize call: the row findUnique returned
    aResult,    \* per authorize call: the value returned
    aLog,       \* per authorize call: calls made and console output, in order
    aExit,      \* per authorize call: the return statement it left through (history)
    returned,   \* per return statement: the values authorize has returned through it (history)
    mw,         \* which middleware runs: "template", "hardened" or "locale"
    honour,     \* whether the auth wrapper answers with the Response of callbacks.authorized
    epc,        \* position of the navigation: "request" (sent) or "response" (answered)
    ereq,       \* the request at the edge: pathname and header names
    eresp,      \* the response of the edge filter
    downstream, \* the request that continues to the application, if one does
    chain,      \* redirects followed in this navigation (history)
    sPc,        \* per signup call: its position
    sForm,      \* per signup call: the formData submitted
    sResult,    \* per signup call: the FormState returned
    sExit,      \* per signup call: the return statement it left through (history)
    created,    \* the rows prisma.user.create has written, in order (history)
    resets,     \* the requestPasswordReset calls made, with their replies (history)
    token,      \* the session token (JWT) of the browser
    current,    \* what getCurrentUser returned last
    nav         \* the sign-in page: its query, its locale and where it navigated to

dalVars == <<env, tier, locale, session, memo, pc, op, vs, outcome, log, seen>>

rateVars == <<store, now, ticks, window, lastCheck, fresh>>

authVars == <<users, aPc, aParsed, aRate, aUser, aResult, aLog, aExit, returned>>

edgeVars == <<mw, honour, epc, ereq, eresp, downstream, chain>>

actVars == <<sPc, sForm, sResult, sExit, created, resets, token, current, nav>>

vars == <<dalVars, rateVars, authVars, edgeVars, actVars>>

(***************************************************************************)
(* JavaScript return values, tagged with their type                        *)
(***************************************************************************)
JsUndefined == [t |-> "undefined", v |-> Undefined]

JsBool(b) == [t |-> "boolean", v |-> IF b THEN "true" ELSE "false"]

JsData(d) == [t |-> "object", v |-> d]

\* the ways an operation ends: return value, redirect(target), throw error
NoOutcome == [kind |-> "none", value |-> JsUndefined, target |-> "", error |-> [origin |-> "", message |-> ""]]

Returned(val) == [NoOutcome EXCEPT !.kind = "return", !.value = val]

Redirected(path) == [NoOutcome EXCEPT !.kind = "redirect", !.target = path]

Thrown(err) == [NoOutcome EXCEPT !.kind = "throw", !.error = err]

(***************************************************************************)
(* verifySession (dal.ts 20-66)                                            *)
(***************************************************************************)
\* the guard testing DEV_DAL_BYPASS for truthiness instead of === 'true'
IsDevelopmentBypass_TruthyFlag(e) ==
    /\ e.NODE_ENV = "development"
    /\ Truthy(e.DEV_DAL_BYPASS)
    /\ UrlIncludes(e.DATABASE_URL, LOCALHOST)
    /\ ~Truthy(e.VERCEL_ENV)
    /\ ~Truthy(e.RAILWAY_ENVIRONMENT)
    /\ ~Truthy(e.HEROKU_APP_NAME)

\* the isDevelopmentBypass expression
IsDevelopmentBypass(e) ==
    /\ e.NODE_ENV = "development"
    /\ e.DEV_DAL_BYPASS = "true"
    /\ UrlIncludes(e.DATABASE_URL, LOCALHOST)
    /\ ~Truthy(e.VERCEL_ENV)
    /\ ~Truthy(e.RAILWAY_ENVIRONMENT)
    /\ ~Truthy(e.HEROKU_APP_NAME)

DEFAULT_DEV_USER_ID == "dev-dal-user-id-default"

DEFAULT_DEV_USER_EMAIL == "dev-dal-default@example.com"

DEFAULT_DEV_USER_ROLE == "ADMIN"

\* the record verifySession returns, or the redirect it exits with
NoRecord == [kind |-> "none", target |-> "", isAuth |-> FALSE, userId |-> Undefined, userEmail |-> Undefined, userRole |-> Undefined]

SessionRecord(id, email, role) ==
    [kind |-> "return", target |-> "", isAuth |-> TRUE, userId |-> id, userEmail |-> email, userRole |-> role]

SessionRedirect(path) == [NoRecord EXCEPT !.kind = "redirect", !.target = path]

\* the sign-in path verifySession redirects to
SignInPath(l) == "/es/signin"

\* the check testing the session only: !session?.user
NoUserId_UserOnly(s) == ~s.hasUser

\* !session?.user?.id
NoUserId(s) == ~(s.hasUser /\ Truthy(s.id))

\* the body of verifySession, run on a cache miss
VerifySessionBody(e, s, l) ==
    IF IsDevelopmentBypass(e)
    THEN SessionRecord(OrDefault(e.DEV_USER_ID, DEFAULT_DEV_USER_ID),
                       OrDefault(e.DEV_USER_EMAIL, DEFAULT_DEV_USER_EMAIL),
                       OrDefault(e.DEV_USER_ROLE, DEFAULT_DEV_USER_ROLE))
    ELSE IF NoUserId(s)
         THEN SessionRedirect(SignInPath(l))
         ELSE SessionRecord(s.id, s.email, s.role)

\* the body validating the token before it looks at the bypass
VerifySessionLog_AuthFirst(e, s) ==
    <<  <<"console.log", "DAL: verifySession called">>, <<"auth()", "">>  >> \o
    (IF IsDevelopmentBypass(e)
     THEN <<  <<"console.log", "DAL: Bypass activo">>  >>
     ELSE IF NoUserId(s)
          THEN <<  <<"console.log", "DAL: verifySession - No session found">>,
                   <<"redirect", SignInPath("")>>  >>
          ELSE <<  <<"console.log", "DAL: verifySession - Sesion valida">>  >>)

\* what the body calls and prints, in order
VerifySessionLog(e, s) ==
    <<  <<"console.log", "DAL: verifySession called">>  >> \o
    (IF IsDevelopmentBypass(e)
     THEN <<  <<"console.log", "DAL: Bypass activo">>  >>
     ELSE <<  <<"auth()", "">>  >> \o
          (IF NoUserId(s)
           THEN <<  <<"console.log", "DAL: verifySession - No session found">>,
                    <<"redirect", SignInPath("")>>  >>
           ELSE <<  <<"console.log", "DAL: verifySession - Sesion valida">>  >>))

NoMemo == [has |-> FALSE, rec |-> NoRecord]

\* cache(): the body runs once per request, later calls get the stored result
VerifySession(m, e, s, l) == IF m.has THEN m.rec ELSE VerifySessionBody(e, s, l)

\* verifySession without cache(): the body runs on every call
VerifySessionCalls_NoCache(m, e, s) == VerifySessionLog(e, s)

VerifySessionCalls(m, e, s) == IF m.has THEN <<>> ELSE VerifySessionLog(e, s)

Memoized(m, e, s, l) == [has |-> TRUE, rec |-> VerifySession(m, e, s, l)]

\* history of a request: how often auth() ran for it, and the results its
\* verifySession calls got
NoneSeen == [authRuns |-> 0, records |-> {}]

AuthRuns(calls) == Cardinality({i \in DOMAIN calls : calls[i][1] = "auth()"})

Tracked(r, m, e, s, l) ==
    [authRuns |-> r.authRuns + AuthRuns(VerifySessionCalls(m, e, s)),
     records |-> r.records \cup {VerifySession(m, e, s, l)}]

(***************************************************************************)
(* requireRole (dal.ts 126-150; template copy 125-146)                     *)
(***************************************************************************)
UNAUTHORIZED == "/unauthorized"

\* requireRole comparing with <= where the code compares with <
RequireRoleOutcome_NoEqual(t, userRole, requiredRole) ==
    IF userRole \notin Labels(t)
    THEN Redirected(UNAUTHORIZED)
    ELSE IF Hierarchy(t)[userRole] <= Hierarchy(t)[requiredRole]
         THEN Redirected(UNAUTHORIZED)
         ELSE Returned(JsBool(TRUE))

\* requireRole without the check of the session's label: undefined < n is
\* false in JavaScript, so the comparison alone lets an unknown label pass
RequireRoleOutcome_NoLabelCheck(t, userRole, requiredRole) ==
    IF userRole \in Labels(t) /\ Hierarchy(t)[userRole] < Hierarchy(t)[requiredRole]
    THEN Redirected(UNAUTHORIZED)
    ELSE Returned(JsBool(TRUE))

\* the two checks of requireRole on the role of the resolved session
RequireRoleOutcome(t, userRole, requiredRole) ==
    IF userRole \notin Labels(t)
    THEN Redirected(UNAUTHORIZED)
    ELSE IF Hierarchy(t)[userRole] < Hierarchy(t)[requiredRole]
         THEN Redirected(UNAUTHORIZED)
         ELSE Returned(JsBool(TRUE))

\* what requireRole prints and calls after verifySession returned
RequireRoleLog(t, userRole, requiredRole) ==
    IF RequireRoleOutcome(t, userRole, requiredRole).kind = "redirect"
    THEN <<  <<"console.warn", "DAL: requireRole">>, <<"redirect", UNAUTHORIZED>>  >>
    ELSE <<>>

(***************************************************************************)
(* getSecureData (dal.ts 196-207; template copy 192-203)                   *)
(***************************************************************************)
\* what a caller-supplied dataFetcher can do: resolve, throw synchronously,
\* reject, or call redirect() (which throws NEXT_REDIRECT)
Fetchers == {"resolves", "throws", "rejects", "redirects"}

FetcherOutcome(f, userId) ==
    CASE f = "resolves" -> Returned(JsData(userId))
      [] f = "throws" -> Thrown([origin |-> "dataFetcher", message |-> "User not found"])
      [] f = "rejects" -> Thrown([origin |-> "prisma", message |-> "connect ECONNREFUSED"])
      [] f = "redirects" -> Thrown([origin |-> "redirect", message |-> "NEXT_REDIRECT"])

\* new Error('Data access denied')
DataAccessDenied == [origin |-> "getSecureData", message |-> "Data access denied"]

\* the argument getSecureData passes to dataFetcher
FetcherArgument(rec) == rec.userId

\* getSecureData without the catch: the fetcher's error reaches the caller
GetSecureDataOutcome_Rethrow(fo) == fo

\* try { return await dataFetcher(userId) } catch { throw new Error(...) }
GetSecureDataOutcome(fo) ==
    IF fo.kind = "throw" THEN Thrown(DataAccessDenied) ELSE fo

GetSecureDataLog(fo) ==
    IF fo.kind = "throw"
    THEN <<  <<"console.error", fo.error.message>>  >>
    ELSE <<>>

\* getSecureData going on to the fetch whatever verifySession did
AfterVerify_Always(rec) == "fetch"

\* where getSecureData continues once verifySession has settled
AfterVerify(rec) == IF rec.kind = "return" THEN "fetch" ELSE "ended"

(***************************************************************************)
(* Requests and DAL operations                                             *)
(***************************************************************************)
Locales == {"es", "en"}

NoSession == [hasUser |-> FALSE, id |-> Undefined, email |-> Undefined, role |-> Undefined]

UserSession(i, r) == [hasUser |-> TRUE, id |-> i, email |-> "user@example.com", role |-> r]

\* auth() results: no session, a session without usable id, a session of user-1
Sessions == {NoSession} \cup {UserSession(i, r) : i \in {Undefined, "", "user-1"}, r \in RoleValues}

NoOp == [name |-> "", requiredRole |-> "", fetcher |-> "", tenantId |-> ""]

\* a request arrives: nothing is memoized yet
NewRequest(S) ==
    /\ pc \in {"idle", "ended"}
    /\ locale' \in Locales
    /\ session' \in S
    /\ memo' = NoMemo
    /\ pc' = "idle"
    /\ op' = NoOp
    /\ vs' = NoRecord
    /\ outcome' = NoOutcome
    /\ log' = <<>>
    /\ seen' = NoneSeen
    /\ UNCHANGED <<env, tier, rateVars, authVars, edgeVars, actVars>>

\* a component of the request calls verifySession()
CallVerifySession ==
    /\ pc = "idle"
    /\ LET rec == VerifySession(memo, env, session, locale) IN
        /\ op' = [NoOp EXCEPT !.name = "verifySession"]
        /\ vs' = rec
        /\ memo' = Memoized(memo, env, session, locale)
        /\ seen' = Tracked(seen, memo, env, session, locale)
        /\ log' = VerifySessionCalls(memo, env, session)
        /\ outcome' = IF rec.kind = "redirect" THEN Redirected(rec.target) ELSE Returned(JsData("record"))
        /\ pc' = IF rec.kind = "redirect" THEN "ended" ELSE "idle"
    /\ UNCHANGED <<env, tier, locale, session, rateVars, authVars, edgeVars, actVars>>

\* a component of the request calls requireRole(requiredRole)
CallRequireRole ==
    /\ pc = "idle"
    /\ \E requiredRole \in Labels(tier) :
        LET rec == VerifySession(memo, env, session, locale)
            res == IF rec.kind = "redirect"
                   THEN Redirected(rec.target)
                   ELSE RequireRoleOutcome(tier, rec.userRole, requiredRole)
        IN
        /\ op' = [NoOp EXCEPT !.name = "requireRole", !.requiredRole = requiredRole]
        /\ vs' = rec
        /\ memo' = Memoized(memo, env, session, locale)
        /\ seen' = Tracked(seen, memo, env, session, locale)
        /\ log' = VerifySessionCalls(memo, env, session) \o
                  (IF rec.kind = "redirect" THEN <<>> ELSE RequireRoleLog(tier, rec.userRole, requiredRole))
        /\ outcome' = res
        /\ pc' = IF res.kind = "redirect" THEN "ended" ELSE "idle"
    /\ UNCHANGED <<env, tier, locale, session, rateVars, authVars, edgeVars, actVars>>

\* getSecureData(dataFetcher) up to the completion of await verifySession()
GetSecureDataVerify ==
    /\ pc = "idle"
    /\ \E f \in Fetchers :
        LET rec == VerifySession(memo, env, session, locale) IN
        /\ op' = [NoOp EXCEPT !.name = "getSecureData", !.fetcher = f]
        /\ vs' = rec
        /\ memo' = Memoized(memo, env, session, locale)
        /\ seen' = Tracked(seen, memo, env, session, locale)
        /\ log' = VerifySessionCalls(memo, env, session) \o <<  <<"verifySession", rec.kind>>  >>
        /\ outcome' = IF rec.kind = "redirect" THEN Redirected(rec.target) ELSE NoOutcome
        /\ pc' = AfterVerify(rec)
    /\ UNCHANGED <<env, tier, locale, session, rateVars, authVars, edgeVars, actVars>>

\* getSecureData: the try block, dataFetcher(userId) and the catch
GetSecureDataFetch ==
    /\ pc = "fetch"
    /\ LET fo == FetcherOutcome(op.fetcher, FetcherArgument(vs)) IN
        /\ log' = log \o <<  <<"dataFetcher", FetcherArgument(vs)>>  >> \o GetSecureDataLog(fo)
        /\ outcome' = GetSecureDataOutcome(fo)
    /\ pc' = "idle"
    /\ UNCHANGED <<env, tier, locale, session, memo, op, vs, seen, rateVars, authVars, edgeVars, actVars>>

(***************************************************************************)
(* getUserTenantData (dal.ts 156-190; template copy 152-186)               *)
(***************************************************************************)
Tenants == {"tenant-a", "tenant-b"}

\* !prisma: the module exports a client object, so the test never succeeds
PrismaMissing == FALSE

\* prisma.user.findFirst({ where: { id: userId }, select: { id: true } }):
\* the where clause names the user only; its tenant filter is commented out
FindFirst(tbl, userId, tenantId) ==
    \E e \in DOMAIN tbl : tbl[e].found /\ tbl[e].id = userId

\* the body of getUserTenantData after verifySession returned rec; the
\* object it returns is { userId: rec.userId, tenantId }
GetUserTenantDataOutcome(e, tbl, rec, tenantId, dbUp) ==
    IF e.NODE_ENV = "development" /\ e.DEV_DAL_BYPASS = "true" /\ PrismaMissing
    THEN Returned(JsData("userId, tenantId"))
    ELSE IF ~dbUp
         THEN Thrown([origin |-> "prisma", message |-> "connect ECONNREFUSED"])
         ELSE IF ~FindFirst(tbl, rec.userId, tenantId)
              THEN Redirected(UNAUTHORIZED)
              ELSE Returned(JsData("userId, tenantId"))

GetUserTenantDataLog(e, res) ==
    IF e.NODE_ENV = "development" /\ e.DEV_DAL_BYPASS = "true" /\ PrismaMissing
    THEN <<  <<"console.warn", "DAL: getUserTenantData - Simulating tenant access">>  >>
    ELSE <<  <<"prisma.user.findFirst", "id">>  >> \o
         (IF res.kind = "redirect"
          THEN <<  <<"console.warn", "DAL: getUserTenantData">>, <<"redirect", UNAUTHORIZED>>  >>
          ELSE <<>>)

\* a component of the request calls getUserTenantData(tenantId)
CallGetUserTenantData ==
    /\ pc = "idle"
    /\ \E tenantId \in Tenants, dbUp \in BOOLEAN :
        LET rec == VerifySession(memo, env, session, locale)
            res == IF rec.kind = "redirect"
                   THEN Redirected(rec.target)
                   ELSE GetUserTenantDataOutcome(env, users, rec, tenantId, dbUp)
        IN
        /\ op' = [NoOp EXCEPT !.name = "getUserTenantData", !.tenantId = tenantId]
        /\ vs' = rec
        /\ memo' = Memoized(memo, env, session, locale)
        /\ seen' = Tracked(seen, memo, env, session, locale)
        /\ log' = VerifySessionCalls(memo, env, session) \o
                  (IF rec.kind = "redirect" THEN <<>> ELSE GetUserTenantDataLog(env, res))
        /\ outcome' = res
        /\ pc' = IF res.kind = "redirect" THEN "ended" ELSE "idle"
    /\ UNCHANGED <<env, tier, locale, session, rateVars, authVars, edgeVars, actVars>>

(***************************************************************************)
(* getCurrentUser (dal.ts 72-120; template copy 71-119)                    *)
(***************************************************************************)
\* prisma.user.findUnique({ where: { id: userId }, select: { id, name, email, role } })
FindById(tbl, userId) ==
    IF \E e \in DOMAIN tbl : tbl[e].found /\ tbl[e].id = userId
    THEN tbl[CHOOSE e \in DOMAIN tbl : tbl[e].found /\ tbl[e].id = userId]
    ELSE [found |-> FALSE, id |-> Undefined, email |-> Undefined, name |-> Undefined,
          password |-> Undefined, role |-> Undefined]

\* the simulated user: the id of the session, email and role from the
\* configuration or their defaults
SimulatedUser(e, userId, name) ==
    [kind |-> "user", id |-> userId,
     email |-> OrDefault(e.DEV_USER_EMAIL, DEFAULT_DEV_USER_EMAIL),
     name |-> name,
     role |-> OrDefault(e.DEV_USER_ROLE, DEFAULT_DEV_USER_ROLE)]

\* the test made when the query found no row:
\* !user && NODE_ENV === 'development' && DEV_DAL_BYPASS === 'true'
SimulateMissing(e) == e.NODE_ENV = "development" /\ e.DEV_DAL_BYPASS = "true"

\* the body of getCurrentUser after verifySession returned rec: the value
\* it returns, null when the query fails
GetCurrentUserValue(e, tbl, rec, dbUp) ==
    IF e.NODE_ENV = "development" /\ e.DEV_DAL_BYPASS = "true" /\ PrismaMissing
    THEN SimulatedUser(e, rec.userId, "Dev Bypass User")
    ELSE IF ~dbUp
         THEN [kind |-> "null", id |-> Undefined, email |-> Undefined, name |-> Undefined, role |-> Undefined]
         ELSE IF ~FindById(tbl, rec.userId).found /\ SimulateMissing(e)
              THEN SimulatedUser(e, rec.userId, "Dev Bypass User (from DB check)")
              ELSE IF FindById(tbl, rec.userId).found
                   THEN [kind |-> "user", id |-> FindById(tbl, rec.userId).id,
                         email |-> FindById(tbl, rec.userId).email,
                         name |-> FindById(tbl, rec.userId).name,
                         role |-> FindById(tbl, rec.userId).role]
                   ELSE [kind |-> "null", id |-> Undefined, email |-> Undefined, name |-> Undefined, role |-> Undefined]

GetCurrentUserLog(e, tbl, rec, dbUp) ==
    <<  <<"prisma.user.findUnique", rec.userId>>  >> \o
    (IF ~dbUp
     THEN <<  <<"console.error", "DAL: getCurrentUser error">>  >>
     ELSE IF ~FindById(tbl, rec.userId).found /\ SimulateMissing(e)
          THEN <<  <<"console.warn", "DAL: getCurrentUser">>  >>
          ELSE <<>>)

\* a component of the request calls getCurrentUser()
CallGetCurrentUser ==
    /\ pc = "idle"
    /\ \E dbUp \in BOOLEAN :
        LET rec == VerifySession(memo, env, session, locale) IN
        /\ op' = [NoOp EXCEPT !.name = "getCurrentUser"]
        /\ vs' = rec
        /\ memo' = Memoized(memo, env, session, locale)
        /\ seen' = Tracked(seen, memo, env, session, locale)
        /\ log' = VerifySessionCalls(memo, env, session) \o
                  (IF rec.kind = "redirect" THEN <<>> ELSE GetCurrentUserLog(env, users, rec, dbUp))
        /\ outcome' = IF rec.kind = "redirect" THEN Redirected(rec.target) ELSE Returned(JsData("user or null"))
        /\ current' = IF rec.kind = "redirect"
                      THEN [kind |-> "pending", id |-> Undefined, email |-> Undefined, name |-> Undefined, role |-> Undefined]
                      ELSE GetCurrentUserValue(env, users, rec, dbUp)
        /\ pc' = IF rec.kind = "redirect" THEN "ended" ELSE "idle"
    /\ UNCHANGED <<env, tier, locale, session, rateVars, authVars, edgeVars>>
    /\ UNCHANGED <<sPc, sForm, sResult, sExit, created, resets, token, nav>>

(***************************************************************************)
(* Rate limiter (rate-limiting.ts)                                         *)
(***************************************************************************)
RATE_LIMIT_WINDOW == 15 * 60 * 1000

MAX_ATTEMPTS == 5

\* bounds of the exploration
MaxTicks == 2

MaxCount == 7

Max(a, b) == IF a >= b THEN a ELSE b

\* identifiers seen by the rate limiter
Identifiers == {"alice@example.com", "nobody@example.com"}

\* store[key] is absent
NoEntry == [has |-> FALSE, count |-> 0, resetTime |-> 0]

\* "Clean expired entries"
Cleaned(entry, t) == IF entry.has /\ entry.resetTime < t THEN NoEntry ELSE entry

\* "Initialize if not exists"
Initialized(entry, t) ==
    IF ~entry.has THEN [has |-> TRUE, count |-> 0, resetTime |-> t + RATE_LIMIT_WINDOW] ELSE entry

\* the counter assigned instead of incremented
Incremented_Overwrite(entry) == [entry EXCEPT !.count = 1]

\* "Increment counter"
Incremented(entry) == [entry EXCEPT !.count = @ + 1]

\* a sliding window: every call moves the reset timestamp
EntryAfterCheck_Sliding(entry, t) ==
    [Incremented(Initialized(Cleaned(entry, t), t)) EXCEPT !.resetTime = t + RATE_LIMIT_WINDOW]

\* store[key] when checkRateLimit returns
EntryAfterCheck(entry, t) == Incremented(Initialized(Cleaned(entry, t), t))

\* the comparison off by one: count < MAX_ATTEMPTS
Allowed_Strict(entry) == entry.count < MAX_ATTEMPTS

\* store[key].count <= MAX_ATTEMPTS
Allowed(entry) == entry.count <= MAX_ATTEMPTS

\* the difference without Math.max(0, ...)
Remaining_NoClamp(entry) == MAX_ATTEMPTS - entry.count

\* Math.max(0, MAX_ATTEMPTS - store[key].count)
Remaining(entry) == Max(0, MAX_ATTEMPTS - entry.count)

\* the object checkRateLimit returns
RateLimitResult(entry) ==
    [allowed |-> Allowed(entry), remaining |-> Remaining(entry), resetTime |-> entry.resetTime]

NoRateLimitResult == [allowed |-> FALSE, remaining |-> 0, resetTime |-> 0]

\* checkRateLimit(identifier) at time t: the store and the result
checkRateLimit(st, t, identifier) ==
    LET entry == EntryAfterCheck(st[identifier], t) IN
    [store |-> [st EXCEPT ![identifier] = entry], result |-> RateLimitResult(entry)]

\* history: a window of an identifier starts with its first call and with
\* the first call made after the time passed the start by more than the
\* window length; calls counts the calls of the window so far
\* window length; index numbers the windows of the identifier and prev is the
\* number of calls of its previous window
FifteenMinutes == 15 * 60 * 1000

NoWindow == [open |-> FALSE, start |-> 0, calls |-> 0, index |-> 0, prev |-> 0]

Observed(w, t) ==
    IF ~w.open \/ t > w.start + FifteenMinutes
    THEN [open |-> TRUE, start |-> t, calls |-> 1, index |-> w.index + 1, prev |-> w.calls]
    ELSE [w EXCEPT !.calls = @ + 1]

NoCheck == [identifier |-> "", at |-> 0, result |-> NoRateLimitResult]

\* the counter of the identifier has room within the explored bound
WithinCount(identifier) == Cleaned(store[identifier], now).count < MaxCount

\* the effect of one checkRateLimit(identifier) call on the limiter's state
CheckEffect(identifier) ==
    /\ store' = checkRateLimit(store, now, identifier).store
    /\ lastCheck' = [identifier |-> identifier, at |-> now,
                     result |-> checkRateLimit(store, now, identifier).result]
    /\ window' = [window EXCEPT ![identifier] = Observed(@, now)]
    /\ fresh' = [fresh EXCEPT ![identifier] = FALSE]

\* the clock advances, by a millisecond or by a whole window
Tick ==
    /\ ticks < MaxTicks
    /\ \E d \in {1, RATE_LIMIT_WINDOW} : now' = now + d
    /\ ticks' = ticks + 1
    /\ UNCHANGED <<store, window, lastCheck, fresh, dalVars, authVars, edgeVars, actVars>>

\* a caller other than authorize calls the exported checkRateLimit
CallCheckRateLimit ==
    /\ \E identifier \in Identifiers :
        /\ WithinCount(identifier)
        /\ CheckEffect(identifier)
    /\ UNCHANGED <<now, ticks, dalVars, authVars, edgeVars, actVars>>

\* the counter set back to 0 with the entry and its window kept
resetRateLimit_KeepWindow(st, identifier) == [st EXCEPT ![identifier].count = 0]

\* resetRateLimit(identifier): delete store[key]
resetRateLimit(st, identifier) == [st EXCEPT ![identifier] = NoEntry]

\* bound of the exploration: windows of one identifier
MaxWindows == 2

\* a caller calls the exported resetRateLimit for an identifier of S; the
\* window of the identifier, if it has one, ends with the call
CallResetRateLimit(S) ==
    /\ \E identifier \in S :
        /\ window[identifier].index < MaxWindows
        /\ store' = resetRateLimit(store, identifier)
        /\ fresh' = [fresh EXCEPT ![identifier] = TRUE]
        /\ window' = [window EXCEPT ![identifier].open = FALSE]
    /\ UNCHANGED <<now, ticks, lastCheck, dalVars, authVars, edgeVars, actVars>>

(***************************************************************************)
(* Credential verifier: authorize (auth.config.ts 33-97)                   *)
(***************************************************************************)
Procs == {1, 2}

\* z.string().email(): the well-formed addresses among the inputs
IsEmail(v) == v \in {"alice@example.com", "nobody@example.com"}

\* String.prototype.trim on the inputs used
Trim(v) ==
    CASE v = "S3cret! " -> "S3cret!"
      [] v = " " -> ""
      [] OTHER -> v

\* SigninFormSchema.safeParse(credentials).success
ParseSuccess(c) ==
    /\ IsEmail(c.email)
    /\ c.password # Undefined
    /\ Len(c.password) >= 1

\* parsedCredentials.data
ParsedData(c) == [email |-> Trim(c.email), password |-> Trim(c.password)]

NoCreds == [email |-> Undefined, password |-> Undefined]

CredentialInputs ==
    [email : {"alice@example.com", "nobody@example.com", "not-an-email"},
     password : {"S3cret!", "S3cret! ", "hunter2", " ", ""}]

\* bcrypt hashes: the hash remembers the password it was made from
Hash(pw) == "$2a$12$" \o pw

\* bcrypt.compare(password, hash)
BcryptCompare(pw, hash) == hash = Hash(pw)

\* rows of the identity table; password is null for OAuth-only accounts
NoRow == [found |-> FALSE, id |-> Undefined, email |-> Undefined, name |-> Undefined, password |-> Undefined, role |-> Undefined]

Row(i, e, n, h, r) == [found |-> TRUE, id |-> i, email |-> e, name |-> n, password |-> h, role |-> r]

\* alice is registered, with a password or through OAuth only; nobody is not
UserTables ==
    { [e \in Identifiers |->
         IF e = "alice@example.com"
         THEN Row("user-1", e, "Alice", h, "PREMIUM")
         ELSE NoRow] : h \in {Hash("S3cret!"), Undefined} }

\* the table with alice holding a password
PasswordTable == CHOOSE tbl \in UserTables : Truthy(tbl["alice@example.com"].password)

\* prisma.user.findUnique({ where: { email } })
FindUnique(tbl, email) == IF email \in DOMAIN tbl THEN tbl[email] ELSE NoRow

\* !user || !user.password
NoUserOrPassword(row) == ~row.found \/ ~Truthy(row.password)

\* the values authorize returns: null, or the user without the password
Null == [kind |-> "null", id |-> Undefined, email |-> Undefined, name |-> Undefined, role |-> Undefined]

Pending == [Null EXCEPT !.kind = "pending"]

UserObject(row) == [kind |-> "user", id |-> row.id, email |-> row.email, name |-> row.name, role |-> row.role]

\* a rejection with a value of its own
RateLimitedReturn_Distinct == [Null EXCEPT !.kind = "rate-limited"]

\* what authorize returns when the rate limiter rejects
RateLimitedReturn == Null

\* what authorize returns when the row is missing or has no password
NoUserReturn == Null

\* a wrong password with a value of its own
MismatchReturn_Distinct == [Null EXCEPT !.kind = "wrong-password"]

\* what authorize returns when the password does not match
MismatchReturn == Null

\* console.log guarded by NODE_ENV === 'development'
DevLog(e, msg) == IF e.NODE_ENV = "development" THEN <<  <<"console.log", msg>>  >> ELSE <<>>

\* authorize going on to the lookup whatever the limiter said
AfterRateLimit_Ignore(res) == "find"

\* where authorize continues after checkRateLimit
AfterRateLimit(res) == IF ~res.allowed THEN "done" ELSE "find"

\* the return statements of authorize
Exits == {"format", "rate", "nouser", "mismatch", "error", "success"}

\* authorize call p returns val through return statement x
Return(p, x, val) ==
    /\ aResult' = [aResult EXCEPT ![p] = val]
    /\ aExit' = [aExit EXCEPT ![p] = x]
    /\ returned' = [returned EXCEPT ![x] = @ \cup {val}]
    /\ aPc' = [aPc EXCEPT ![p] = "done"]

\* authorize call p goes on to position l
Continue(p, l) ==
    /\ aResult' = [aResult EXCEPT ![p] = Pending]
    /\ aExit' = [aExit EXCEPT ![p] = ""]
    /\ aPc' = [aPc EXCEPT ![p] = l]
    /\ UNCHANGED returned

\* authorize from its call to the first await: parse, then checkRateLimit
AuthorizeStart(p) ==
    /\ aPc[p] \in {"idle", "done"}
    /\ \E c \in CredentialInputs :
        /\ aUser' = [aUser EXCEPT ![p] = NoRow]
        /\ IF ~ParseSuccess(c)
           THEN /\ aParsed' = [aParsed EXCEPT ![p] = NoCreds]
                /\ aRate' = [aRate EXCEPT ![p] = NoRateLimitResult]
                /\ aLog' = [aLog EXCEPT ![p] = DevLog(env, "Invalid credentials format")]
                /\ Return(p, "format", Null)
                /\ UNCHANGED <<store, lastCheck, window, fresh>>
           ELSE LET data == ParsedData(c)
                    res == checkRateLimit(store, now, data.email).result
                IN
                /\ WithinCount(data.email)
                /\ CheckEffect(data.email)
                /\ aParsed' = [aParsed EXCEPT ![p] = data]
                /\ aRate' = [aRate EXCEPT ![p] = res]
                /\ aLog' = [aLog EXCEPT ![p] =
                      <<  <<"checkRateLimit", data.email>>  >> \o
                      (IF ~res.allowed THEN DevLog(env, "Rate limit exceeded") ELSE <<>>)]
                /\ IF AfterRateLimit(res) = "done"
                   THEN Return(p, "rate", RateLimitedReturn)
                   ELSE Continue(p, AfterRateLimit(res))
    /\ UNCHANGED <<now, ticks, users, dalVars, edgeVars, actVars>>

\* authorize: await prisma.user.findUnique(...) and the check of the row;
\* a failing query is caught by the outer try and gives null
AuthorizeFind(p) ==
    /\ aPc[p] = "find"
    /\ \E dbUp \in BOOLEAN :
        LET row == FindUnique(users, aParsed[p].email) IN
        IF ~dbUp
        THEN /\ aLog' = [aLog EXCEPT ![p] = @ \o <<  <<"prisma.user.findUnique", aParsed[p].email>>,
                                                      <<"console.log", "Error in authorize">>  >>]
             /\ Return(p, "error", Null)
             /\ UNCHANGED aUser
        ELSE /\ aUser' = [aUser EXCEPT ![p] = row]
             /\ aLog' = [aLog EXCEPT ![p] = @ \o <<  <<"prisma.user.findUnique", aParsed[p].email>>  >> \o
                           (IF NoUserOrPassword(row) THEN DevLog(env, "User not found or no password set") ELSE <<>>)]
             /\ IF NoUserOrPassword(row)
                THEN Return(p, "nouser", NoUserReturn)
                ELSE Continue(p, "compare")
    /\ UNCHANGED <<aParsed, aRate, users, rateVars, dalVars, edgeVars, actVars>>

\* a matching password clearing the attempts of the identifier
StoreAfterCompare_Reset(st, identifier, passwordsMatch) ==
    IF passwordsMatch THEN resetRateLimit(st, identifier) ELSE st

\* the limiter's store after bcrypt.compare: neither branch touches it
StoreAfterCompare(st, identifier, passwordsMatch) == st

\* authorize: await bcrypt.compare(...) and the return
AuthorizeCompare(p) ==
    /\ aPc[p] = "compare"
    /\ LET passwordsMatch == BcryptCompare(aParsed[p].password, aUser[p].password) IN
        /\ aLog' = [aLog EXCEPT ![p] = @ \o <<  <<"bcrypt.compare", aParsed[p].email>>  >> \o
                      (IF ~passwordsMatch THEN DevLog(env, "Password does not match") ELSE <<>>)]
        /\ IF ~passwordsMatch
           THEN Return(p, "mismatch", MismatchReturn)
           ELSE Return(p, "success", UserObject(aUser[p]))
        /\ store' = StoreAfterCompare(store, aParsed[p].email, passwordsMatch)
    /\ UNCHANGED <<aParsed, aRate, aUser, users, now, ticks, window, lastCheck, fresh, dalVars, edgeVars, actVars>>

(***************************************************************************)
(* Server actions: signup, requestPasswordReset (lib/actions/auth.ts)      *)
(***************************************************************************)
\* FormState: the fields with errors, and the message
NoFormState == [errors |-> {}, message |-> Undefined]

Errors(fields) == [errors |-> fields, message |-> Undefined]

Message(m) == [errors |-> {}, message |-> m]

\* the message literals of the two actions
Messages ==
    [exists |-> "A user with this email already exists.",
     created |-> "Account created successfully! Please sign in.",
     unexpected |-> "An unexpected error occurred. Please try again.",
     successMessage |-> "If an account exists with this email, you will receive password reset instructions."]

\* the character classes a password has, for the passwords submitted
Classes(pw) ==
    CASE pw = "S3cret!x" -> {"letter", "digit", "other"}
      [] pw = "hunter22" -> {"letter", "digit"}
      [] pw = "S3c!" -> {"letter", "digit", "other"}
      [] OTHER -> {}

\* SignupFormSchema.safeParse(...).error.flatten().fieldErrors: the fields
\* that fail their checks
SignupFieldErrors(formData) ==
    (IF Len(formData.name) >= 2 THEN {} ELSE {"name"})
    \cup (IF IsEmail(formData.email) THEN {} ELSE {"email"})
    \cup (IF Len(formData.password) >= 8 /\ Classes(formData.password) = {"letter", "digit", "other"}
          THEN {} ELSE {"password"})

\* validationResult.data: the three fields of the schema, trimmed
SignupData(formData) ==
    [name |-> Trim(formData.name), email |-> Trim(formData.email), password |-> Trim(formData.password)]

\* what a client can submit: FormData carries any field, a role among them
NoForm == [name |-> "", email |-> "", password |-> "", role |-> Undefined]

ValidForms ==
    [name : {"Al"}, email : {"alice@example.com", "nobody@example.com"},
     password : {"S3cret!x"}, role : {Undefined, "SUPER_ADMIN"}]

SignupForms ==
    ValidForms \cup
    { [NoForm EXCEPT !.name = "A", !.email = "nobody@example.com", !.password = "S3cret!x"],
      [NoForm EXCEPT !.name = "Al", !.email = "not-an-email", !.password = "S3cret!x"],
      [NoForm EXCEPT !.name = "Al", !.email = "nobody@example.com", !.password = "hunter22"],
      [NoForm EXCEPT !.name = "Al", !.email = "nobody@example.com", !.password = "S3c!", !.role = "ADMIN"] }

\* the role taken from the submitted form when it names one
CreateRole_FromForm(formData) == OrDefault(formData.role, "USER")

\* role: 'USER' in the data object of prisma.user.create
CreateRole(formData) == "USER"

\* the row prisma.user.create writes as the n-th one; its id is generated
NewRow(formData, n) ==
    Row("cuid-" \o ToString(n), SignupData(formData).email, SignupData(formData).name,
        Hash(SignupData(formData).password), CreateRole(formData))

\* a table without the unique index on email
UniqueViolation_None(tbl, email) == FALSE

\* email String @unique: create fails with P2002 when a row has the email
UniqueViolation(tbl, email) == FindUnique(tbl, email).found

\* the return statements of signup: lines 38, 53, 78, 90 and 97
SignupExits == {"invalid", "exists", "created", "P2002", "error"}

\* signup call p returns state through return statement x
SignupReturn(p, x, state) ==
    /\ sResult' = [sResult EXCEPT ![p] = state]
    /\ sExit' = [sExit EXCEPT ![p] = x]
    /\ sPc' = [sPc EXCEPT ![p] = "done"]

\* signup call p goes on to position l
SignupContinue(p, l) ==
    /\ sResult' = [sResult EXCEPT ![p] = NoFormState]
    /\ sExit' = [sExit EXCEPT ![p] = ""]
    /\ sPc' = [sPc EXCEPT ![p] = l]

\* signup from its call to the first await: validation
SignupStart(p) ==
    /\ sPc[p] \in {"idle", "done"}
    /\ \E formData \in SignupForms :
        /\ sForm' = [sForm EXCEPT ![p] = formData]
        /\ IF SignupFieldErrors(formData) # {}
           THEN SignupReturn(p, "invalid", Errors(SignupFieldErrors(formData)))
           ELSE SignupContinue(p, "find")
    /\ UNCHANGED <<users, created, resets, token, current, nav, dalVars, rateVars, edgeVars>>
    /\ UNCHANGED <<aPc, aParsed, aRate, aUser, aResult, aLog, aExit, returned>>

\* signup: await prisma.user.findUnique(...) and the check of existingUser;
\* a failing query is caught and gives the generic message
SignupFind(p) ==
    /\ sPc[p] = "find"
    /\ \E dbUp \in BOOLEAN :
        IF ~dbUp
        THEN SignupReturn(p, "error", Message(Messages.unexpected))
        ELSE IF FindUnique(users, SignupData(sForm[p]).email).found
             THEN SignupReturn(p, "exists", Message(Messages.exists))
             ELSE SignupContinue(p, "hash")
    /\ UNCHANGED <<sForm, users, created, resets, token, current, nav, dalVars, rateVars, edgeVars>>
    /\ UNCHANGED <<aPc, aParsed, aRate, aUser, aResult, aLog, aExit, returned>>

\* signup: await bcrypt.hash(password, 12)
SignupHash(p) ==
    /\ sPc[p] = "hash"
    /\ SignupContinue(p, "create")
    /\ UNCHANGED <<sForm, users, created, resets, token, current, nav, dalVars, rateVars, edgeVars>>
    /\ UNCHANGED <<aPc, aParsed, aRate, aUser, aResult, aLog, aExit, returned>>

\* signup: await prisma.user.create(...), the return and the catch block
SignupCreate(p) ==
    /\ sPc[p] = "create"
    /\ \E dbUp \in BOOLEAN :
        LET row == NewRow(sForm[p], Len(created) + 1) IN
        IF ~dbUp
        THEN /\ SignupReturn(p, "error", Message(Messages.unexpected))
             /\ UNCHANGED <<users, created>>
        ELSE IF UniqueViolation(users, row.email)
             THEN /\ SignupReturn(p, "P2002", Message(Messages.exists))
                  /\ UNCHANGED <<users, created>>
             ELSE /\ users' = [users EXCEPT ![row.email] = row]
                  /\ created' = Append(created, row)
                  /\ SignupReturn(p, "created", Message(Messages.created))
    /\ UNCHANGED <<sForm, resets, token, current, nav, dalVars, rateVars, edgeVars>>
    /\ UNCHANGED <<aPc, aParsed, aRate, aUser, aResult, aLog, aExit, returned>>

\* a reply that tells the caller that no account has the email
ResetReply_Distinct(user) ==
    IF ~user.found THEN Message("No account exists with this email.") ELSE Message(Messages.successMessage)

\* requestPasswordReset after the lookup: the same message on both branches
ResetReply(user) ==
    IF ~user.found THEN Message(Messages.successMessage) ELSE Message(Messages.successMessage)

\* requestPasswordReset(email) on table tbl; lookupOk is false when the
\* query fails
RequestPasswordReset(tbl, email, lookupOk) ==
    IF ~IsEmail(email)
    THEN Errors({"email"})
    ELSE IF ~lookupOk
         THEN Message(Messages.unexpected)
         ELSE ResetReply(FindUnique(tbl, email))

\* a client calls requestPasswordReset(email)
CallRequestPasswordReset ==
    /\ \E email \in {"alice@example.com", "nobody@example.com", "not-an-email"}, lookupOk \in BOOLEAN :
        resets' = resets \cup
            {[email |-> email, registered |-> FindUnique(users, email).found, lookupOk |-> lookupOk,
              reply |-> RequestPasswordReset(users, email, lookupOk)]}
    /\ UNCHANGED <<sPc, sForm, sResult, sExit, users, created, token, current, nav, dalVars, rateVars, edgeVars>>
    /\ UNCHANGED <<aPc, aParsed, aRate, aUser, aResult, aLog, aExit, returned>>

(***************************************************************************)
(* Edge request filter: middleware.ts                                      *)
(*   "template": src/template-frontend/src/middleware.ts                   *)
(*   "hardened": the middleware with header handling (second copy, 56-134) *)
(*   "locale":   the middleware doing locale redirection only (162-178)    *)
(* A pathname is a tuple of characters, so that startsWith, split and the  *)
(* template literals are computed on the characters.                       *)
(***************************************************************************)
Slash == <<"/">>

\* the words pathnames and routes are made of, as characters
W ==
    [es |-> <<"e", "s">>,
     en |-> <<"e", "n">>,
     fr |-> <<"f", "r">>,
     esx |-> <<"e", "s", "x">>,
     dashboard |-> <<"d", "a", "s", "h", "b", "o", "a", "r", "d">>,
     dashboardx |-> <<"d", "a", "s", "h", "b", "o", "a", "r", "d", "x">>,
     profile |-> <<"p", "r", "o", "f", "i", "l", "e">>,
     settings |-> <<"s", "e", "t", "t", "i", "n", "g", "s">>,
     about |-> <<"a", "b", "o", "u", "t">>,
     auth |-> <<"a", "u", "t", "h">>,
     signin |-> <<"s", "i", "g", "n", "i", "n">>,
     signup |-> <<"s", "i", "g", "n", "u", "p">>,
     forgot |-> <<"f", "o", "r", "g", "o", "t", "-", "p", "a", "s", "s", "w", "o", "r", "d">>,
     reset |-> <<"r", "e", "s", "e", "t", "-", "p", "a", "s", "s", "w", "o", "r", "d">>,
     api |-> <<"a", "p", "i">>,
     users |-> <<"u", "s", "e", "r", "s">>,
     logo |-> <<"l", "o", "g", "o", ".", "p", "n", "g">>,
     next |-> <<"_", "n", "e", "x", "t">>,
     static |-> <<"_", "s", "t", "a", "t", "i", "c">>,
     next_static |-> <<"_", "n", "e", "x", "t", "/", "s", "t", "a", "t", "i", "c">>,
     next_image |-> <<"_", "n", "e", "x", "t", "/", "i", "m", "a", "g", "e">>,
     favicon |-> <<"f", "a", "v", "i", "c", "o", "n", ".", "i", "c", "o">>]

\* pathnames of one, two and three segments
P1(a) == Slash \o a

P2(a, b) == Slash \o a \o Slash \o b

P3(a, b, c) == Slash \o a \o Slash \o b \o Slash \o c

\* String.prototype.startsWith
StartsWith(s, p) == Len(p) <= Len(s) /\ SubSeq(s, 1, Len(p)) = p

\* the characters of s from position i on
From(s, i) == SubSeq(s, i, Len(s))

\* the length of s up to its first "/", s taken whole when it has none
UpToSlash(s) ==
    IF \E i \in 1..Len(s) : s[i] = "/"
    THEN (CHOOSE i \in 1..Len(s) : s[i] = "/" /\ \A j \in 1..(i - 1) : s[j] # "/") - 1
    ELSE Len(s)

\* pathname.split('/')[1], for a pathname (which starts with "/")
Segment1(pathname) == SubSeq(From(pathname, 2), 1, UpToSlash(From(pathname, 2)))

\* const locales = ['es', 'en'] and const defaultLocale = 'es'
locales == <<W.es, W.en>>

defaultLocale == W.es

\* getLocale(request)
getLocale == defaultLocale

\* '/' + segments.slice(2).join('/') when segments[1] is a locale
getPathnameWithoutLocale(pathname) ==
    IF \E i \in DOMAIN locales : locales[i] = Segment1(pathname)
    THEN Slash \o From(pathname, Len(Segment1(pathname)) + 3)
    ELSE pathname

Variants == {"template", "hardened", "locale"}

\* config.matcher: '/((?!_next|_static|api|favicon.ico|.*\\..*).*)', and
\* in the hardened copy '/((?!_next/static|_next/image|api|favicon.ico|.*\\..*).*)'
Excluded(v) ==
    IF v = "hardened"
    THEN {W.next_static, W.next_image, W.api, W.favicon}
    ELSE {W.next, W.static, W.api, W.favicon}

Matches(v, pathname) ==
    /\ \A x \in Excluded(v) : ~StartsWith(From(pathname, 2), x)
    /\ \A i \in 2..Len(pathname) : pathname[i] # "."

\* the route lists
protectedRoutes == {P1(W.dashboard), P1(W.profile), P1(W.settings)}

authRoutes == {P2(W.auth, W.signin), P2(W.auth, W.signup), P2(W.auth, W.forgot)}

publicRoutes == {P2(W.auth, W.signin), P2(W.auth, W.signup), P2(W.auth, W.forgot), P2(W.auth, W.reset)}

\* the test without the slash that ends the locale segment
pathnameHasLocale_NoSlash(pathname) ==
    \E i \in DOMAIN locales : StartsWith(pathname, Slash \o locales[i])

\* locales.some(l => pathname.startsWith(`/${l}/`) || pathname === `/${l}`)
pathnameHasLocale(pathname) ==
    \E i \in DOMAIN locales :
        StartsWith(pathname, Slash \o locales[i] \o Slash) \/ pathname = Slash \o locales[i]

\* pathnameHasLocale ? pathname.split('/')[1] : getLocale(request)
currentLocale(pathname) == IF pathnameHasLocale(pathname) THEN Segment1(pathname) ELSE getLocale

\* the routes compared for equality instead of as prefixes
SomeStartsWith_Exact(routes, pathname) ==
    \E route \in routes : getPathnameWithoutLocale(pathname) = route

\* routes.some(route => pathnameWithoutLocale.startsWith(route))
SomeStartsWith(routes, pathname) ==
    \E route \in routes : StartsWith(getPathnameWithoutLocale(pathname), route)

\* !!request.auth: the wrapper attaches the session of the token, or null
IsAuthenticated(s) == s.hasUser

\* the response headers set before a response is returned
SecurityHeaders ==
    {"X-Frame-Options", "X-Content-Type-Options", "Referrer-Policy", "X-XSS-Protection", "Strict-Transport-Security"}

\* responses: NextResponse.next(), NextResponse.redirect(url); by names the
\* return statement taken; callbackUrl is <<>> when the URL has no such
\* parameter
NoResponse == [kind |-> "none", location |-> <<>>, callbackUrl |-> <<>>, headers |-> {}, by |-> ""]

EdgeNext(hs, x) == [NoResponse EXCEPT !.kind = "next", !.headers = hs, !.by = x]

EdgeRedirect(url, cb, x) == [NoResponse EXCEPT !.kind = "redirect", !.location = url, !.callbackUrl = cb, !.by = x]

\* new URL(`/${currentLocale}${pathname}`, request.url)
LocaleUrl(pathname) == Slash \o currentLocale(pathname) \o pathname

\* new URL(`/${currentLocale}/auth/signin`, request.url)
LoginUrl(pathname) == Slash \o currentLocale(pathname) \o P2(W.auth, W.signin)

\* new URL(`/${currentLocale}/dashboard`, request.url)
DashboardUrl(pathname) == Slash \o currentLocale(pathname) \o P1(W.dashboard)

\* the template middleware: lines 27-73
TemplateResponse(pathname, isAuthenticated) ==
    IF ~pathnameHasLocale(pathname)
    THEN EdgeRedirect(LocaleUrl(pathname), <<>>, "locale")
    ELSE IF SomeStartsWith(protectedRoutes, pathname) /\ ~isAuthenticated
         THEN EdgeRedirect(LoginUrl(pathname), pathname, "signin")
         ELSE IF SomeStartsWith(authRoutes, pathname) /\ isAuthenticated
              THEN EdgeRedirect(DashboardUrl(pathname), <<>>, "dashboard")
              ELSE EdgeNext({}, "next")

\* the hardened middleware: lines 56-134
HardenedResponse(pathname, isAuthenticated) ==
    IF ~pathnameHasLocale(pathname)
    THEN EdgeRedirect(LocaleUrl(pathname), <<>>, "locale")
    ELSE IF ~SomeStartsWith(publicRoutes, pathname) /\ ~isAuthenticated
         THEN EdgeRedirect(LoginUrl(pathname), pathname, "signin")
         ELSE IF SomeStartsWith(publicRoutes, pathname) /\ isAuthenticated
              THEN EdgeRedirect(DashboardUrl(pathname), <<>>, "dashboard")
              ELSE EdgeNext(SecurityHeaders \ {"x-middleware-subrequest", "x-forwarded-middleware"}, "next")

\* the locale-only middleware: lines 162-178
LocaleOnlyResponse(pathname) ==
    IF pathnameHasLocale(pathname)
    THEN EdgeNext({}, "next")
    ELSE EdgeRedirect(Slash \o getLocale \o pathname, <<>>, "locale")

\* the response of the filter of variant v; a request the matcher leaves
\* out does not reach the filter
EdgeResponse(v, pathname, isAuthenticated) ==
    IF ~Matches(v, pathname)
    THEN EdgeNext({}, "unmatched")
    ELSE CASE v = "template" -> TemplateResponse(pathname, isAuthenticated)
           [] v = "hardened" -> HardenedResponse(pathname, isAuthenticated)
           [] v = "locale" -> LocaleOnlyResponse(pathname)

\* the variants exported as auth((request) => { ... })
Wrapped == {"template", "hardened"}

\* nextUrl.pathname.includes('/dashboard')
isOnDashboard(pathname) ==
    \E i \in 1..Len(pathname) : StartsWith(From(pathname, i), P1(W.dashboard))

\* nextUrl.pathname.split('/')[1] || 'es'
AuthorizedLocale(pathname) == IF Segment1(pathname) = <<>> THEN W.es ELSE Segment1(pathname)

\* the callback redirecting every logged-in request, the dashboard included
AuthorizedRedirects_Always(pathname, isLoggedIn) == isLoggedIn

\* callbacks.authorized returns a Response: logged in and not on a dashboard path
AuthorizedRedirects(pathname, isLoggedIn) == ~isOnDashboard(pathname) /\ isLoggedIn

\* Response.redirect(new URL(`/${locale}/dashboard`, nextUrl))
AuthorizedUrl(pathname) == Slash \o AuthorizedLocale(pathname) \o P1(W.dashboard)

\* the response of the wrapped filter: when the wrapper honours a Response
\* of callbacks.authorized it returns it in place of running the body; a
\* boolean from the callback leaves the answer to the body
WrappedResponse(h, v, pathname, isAuthenticated) ==
    IF h /\ v \in Wrapped /\ Matches(v, pathname) /\ AuthorizedRedirects(pathname, isAuthenticated)
    THEN EdgeRedirect(AuthorizedUrl(pathname), <<>>, "authorized")
    ELSE EdgeResponse(v, pathname, isAuthenticated)

\* header names a request can arrive with
InboundHeaders == {"x-middleware-subrequest", "x-forwarded-middleware", "accept-language"}

\* modifiedHeaders: the clone of request.headers after the two delete calls
ModifiedHeaders(hs) == hs \ {"x-middleware-subrequest", "x-forwarded-middleware"}

\* the headers of the request that continues after NextResponse.next():
\* next() is called without a request override, so they are those of the
\* incoming request; cleanRequest is built in the hardened copy and not used
ForwardedHeaders(v, hs) == hs

NotReached == [reached |-> FALSE, headers |-> {}, cleanRequest |-> {}]

Forwarded(v, hs) ==
    [reached |-> TRUE, headers |-> ForwardedHeaders(v, hs),
     cleanRequest |-> IF v = "hardened" THEN ModifiedHeaders(hs) ELSE {}]

\* pathnames requested
LocalizedPaths ==
    { P1(W.es), P1(W.en), P1(W.es) \o Slash,
      P2(W.es, W.dashboard), P3(W.en, W.dashboard, W.settings), P2(W.es, W.dashboardx),
      P2(W.en, W.profile), P2(W.es, W.settings), P2(W.en, W.about),
      P3(W.es, W.auth, W.signin), P3(W.en, W.auth, W.signup), P3(W.es, W.auth, W.forgot),
      P3(W.en, W.auth, W.reset), P2(W.es, W.signin) }

UnlocalizedPaths ==
    { Slash, P1(W.dashboard), P2(W.auth, W.signin), P1(W.about), P1(W.esx), P2(W.fr, W.dashboard) }

UnmatchedPaths == { P2(W.api, W.users), P1(W.logo) }

Paths == LocalizedPaths \cup UnlocalizedPaths \cup UnmatchedPaths

EdgeRequests == [pathname : Paths, headers : SUBSET InboundHeaders]

NoChain == [hops |-> 0, locale |-> 0, last |-> ""]

\* the filter answers the request
EdgeFilter ==
    /\ epc = "request"
    /\ LET res == WrappedResponse(honour, mw, ereq.pathname, IsAuthenticated(session)) IN
        /\ eresp' = res
        /\ downstream' = IF res.kind = "next" THEN Forwarded(mw, ereq.headers) ELSE NotReached
        /\ chain' = [chain EXCEPT !.locale = IF res.by = "locale" THEN @ + 1 ELSE @]
    /\ epc' = "response"
    /\ UNCHANGED <<mw, honour, ereq, dalVars, rateVars, authVars, actVars>>

\* the client follows the redirect, with the same token and headers
FollowRedirect ==
    /\ epc = "response"
    /\ eresp.kind = "redirect"
    /\ ereq' = [ereq EXCEPT !.pathname = eresp.location]
    /\ chain' = [chain EXCEPT !.hops = @ + 1, !.last = eresp.by]
    /\ eresp' = NoResponse
    /\ downstream' = NotReached
    /\ epc' = "request"
    /\ UNCHANGED <<mw, honour, dalVars, rateVars, authVars, actVars>>

\* the client starts another navigation, signed in or not
Navigate(S) ==
    /\ epc = "response"
    /\ ereq' \in EdgeRequests
    /\ session' \in S
    /\ chain' = NoChain
    /\ eresp' = NoResponse
    /\ downstream' = NotReached
    /\ epc' = "request"
    /\ UNCHANGED <<mw, honour, env, tier, locale, memo, pc, op, vs, outcome, log, seen, rateVars, authVars, actVars>>

(***************************************************************************)
(* Session token: callbacks.jwt, callbacks.session (auth.config.ts 124-136) *)
(***************************************************************************)
\* the token: sub and email are set by the library at sign-in, role by the
\* jwt callback; stored is the role the table had at sign-in (history)
NoToken == [issued |-> FALSE, sub |-> Undefined, email |-> Undefined, role |-> Undefined, stored |-> Undefined]

\* the callback writing the role of its user argument on every call
Jwt_AlwaysWrite(tok, user) == [tok EXCEPT !.role = user.role]

\* jwt({ token, user }): user is the object authorize returned when the
\* call is made for a sign-in, and is absent (kind "null") on later calls
Jwt(tok, user) == IF user.kind = "user" THEN [tok EXCEPT !.role = user.role] ELSE tok

\* session({ session, token })
SessionCallback(sess, tok) == IF Truthy(tok.role) THEN [sess EXCEPT !.role = tok.role] ELSE sess

\* what auth() yields for a request carrying the token: the jwt callback
\* runs without user, then the session callback on the session the library
\* made of the token; exposeId tells whether that session has the subject id
SessionOf(tok, exposeId) ==
    SessionCallback([hasUser |-> TRUE, id |-> IF exposeId THEN tok.sub ELSE Undefined,
                     email |-> tok.email, role |-> Undefined],
                    Jwt(tok, Null))

TokenSessions(tok) ==
    IF tok.issued THEN {SessionOf(tok, x) : x \in BOOLEAN} ELSE {NoSession}

\* a sign-in with the credentials of a registered user: the token is made
\* for the object authorize returns, and passed through the jwt callback;
\* the browser's next request carries the new token
SignIn ==
    /\ pc \in {"idle", "ended"}
    /\ \E e \in Identifiers :
        /\ users[e].found
        /\ token' = Jwt([issued |-> TRUE, sub |-> users[e].id, email |-> users[e].email,
                         role |-> Undefined, stored |-> users[e].role],
                        UserObject(users[e]))
    /\ session' \in TokenSessions(token')
    /\ memo' = NoMemo
    /\ pc' = "idle"
    /\ op' = NoOp
    /\ vs' = NoRecord
    /\ outcome' = NoOutcome
    /\ log' = <<>>
    /\ seen' = NoneSeen
    /\ UNCHANGED <<sPc, sForm, sResult, sExit, created, resets, current, nav>>
    /\ UNCHANGED <<env, tier, locale, rateVars, authVars, edgeVars>>

\* an administrator changes the stored role of a user
ChangeRole ==
    /\ pc \in {"idle", "ended"}
    /\ \E e \in Identifiers, r \in Labels(tier) :
        /\ users[e].found
        /\ users[e].role # r
        /\ users' = [users EXCEPT ![e].role = r]
    /\ UNCHANGED <<aPc, aParsed, aRate, aUser, aResult, aLog, aExit, returned>>
    /\ UNCHANGED <<dalVars, rateVars, edgeVars, actVars>>

(***************************************************************************)
(* Sign-in page: validateCallbackUrl (signin/page.tsx)                     *)
(***************************************************************************)
\* the two sign-in pages of the application: app/[locale]/(auth)/signin,
\* served at /{locale}/signin, and app/[locale]/auth/signin, served at
\* /{locale}/auth/signin, the address the middleware redirects to
SigninPages == {"(auth)/signin", "auth/signin"}

\* stage: "" no page open, "open", "failed" (an error is shown), "pushed"
\* (router.push(callbackUrl)), "google" (signIn('google', { callbackUrl }));
\* callbackUrl is the query value, <<>> when the URL has none
NoNav == [page |-> "", locale |-> <<>>, callbackUrl |-> <<>>, stage |-> "", target |-> <<>>]

\* String.prototype.includes on characters
IncludesChars(s, p) == \E i \in 1..Len(s) : StartsWith(From(s, i), p)

\* `/${locale}/dashboard`
DefaultTarget(loc) == Slash \o loc \o P1(W.dashboard)

\* validateCallbackUrl(searchParams.get('callbackUrl')), (auth)/signin/page.tsx 33-43
validateCallbackUrl(loc, url) ==
    IF url = <<>> THEN DefaultTarget(loc)
    ELSE IF StartsWith(url, Slash \o loc \o Slash) /\ ~IncludesChars(url, <<":", "/", "/">>)
         THEN url
         ELSE DefaultTarget(loc)

\* searchParams.get('callbackUrl') || `/${locale}/dashboard`, auth/signin/page.tsx 30
RawCallbackUrl(loc, url) == IF url = <<>> THEN DefaultTarget(loc) ELSE url

\* const callbackUrl of the page
PageCallbackUrl(page, loc, url) ==
    IF page = "(auth)/signin" THEN validateCallbackUrl(loc, url) ELSE RawCallbackUrl(loc, url)

\* values of the callbackUrl query parameter: absent, paths under es and
\* en, the locale without a slash, a path with a scheme inside, a
\* protocol-relative and an absolute URL
Evil == <<"e", "v", "i", "l", ".", "e", "x", "a", "m", "p", "l", "e">>

CallbackUrls ==
    { <<>>,
      P2(W.es, W.dashboard), P3(W.en, W.dashboard, W.settings), P2(W.es, W.profile),
      P1(W.es), P2(W.esx, W.dashboard),
      P1(W.es) \o Slash \o <<"h", "t", "t", "p", "s", ":", "/", "/">> \o Evil,
      Slash \o Slash \o Evil,
      <<"h", "t", "t", "p", "s", ":", "/", "/">> \o Evil \o Slash }

\* the page served at a pathname
PageAt(pathname) ==
    CASE getPathnameWithoutLocale(pathname) = P2(W.auth, W.signin) -> "auth/signin"
      [] getPathnameWithoutLocale(pathname) = P1(W.signin) -> "(auth)/signin"
      [] OTHER -> ""

\* the browser opens a sign-in page from a link, with any query value
OpenSignin ==
    /\ \E page \in SigninPages, i \in DOMAIN locales, url \in CallbackUrls :
          nav' = [page |-> page, locale |-> locales[i], callbackUrl |-> url,
                  stage |-> "open", target |-> <<>>]
    /\ UNCHANGED <<sPc, sForm, sResult, sExit, created, resets, token, current,
                   dalVars, rateVars, authVars, edgeVars>>

\* the browser follows the middleware's redirect of a request without
\* session: loginUrl with callbackUrl set to the pathname requested
OpenFromMiddleware ==
    /\ \E v \in Wrapped, pathname \in Paths :
          LET res == EdgeResponse(v, pathname, FALSE) IN
          /\ res.by = "signin"
          /\ PageAt(res.location) \in SigninPages
          /\ nav' = [page |-> PageAt(res.location), locale |-> Segment1(res.location),
                     callbackUrl |-> res.callbackUrl, stage |-> "open", target |-> <<>>]
    /\ UNCHANGED <<sPc, sForm, sResult, sExit, created, resets, token, current,
                   dalVars, rateVars, authVars, edgeVars>>

\* handleCredentialsSignIn: signIn('credentials', { redirect: false }) and,
\* without error, router.push(callbackUrl)
HandleCredentialsSignIn ==
    /\ nav.stage \in {"open", "failed"}
    /\ \E result \in {"error", "ok", "throws"} :
          nav' = IF result = "ok"
                 THEN [nav EXCEPT !.stage = "pushed",
                                  !.target = PageCallbackUrl(nav.page, nav.locale, nav.callbackUrl)]
                 ELSE [nav EXCEPT !.stage = "failed"]
    /\ UNCHANGED <<sPc, sForm, sResult, sExit, created, resets, token, current,
                   dalVars, rateVars, authVars, edgeVars>>

\* handleGoogleSignIn: signIn('google', { callbackUrl })
HandleGoogleSignIn ==
    /\ nav.stage \in {"open", "failed"}
    /\ \E throws \in BOOLEAN :
          nav' = IF throws
                 THEN [nav EXCEPT !.stage = "failed"]
                 ELSE [nav EXCEPT !.stage = "google",
                                  !.target = PageCallbackUrl(nav.page, nav.locale, nav.callbackUrl)]
    /\ UNCHANGED <<sPc, sForm, sResult, sExit, created, resets, token, current,
                   dalVars, rateVars, authVars, edgeVars>>

(***************************************************************************)
(* Environments                                                            *)
(***************************************************************************)
\* values of a platform marker: unset, set to the empty string, set
MarkerValues == {Undefined, "", "production"}

\* every combination of the guard variables; the DEV_USER_* are unset
GuardEnvs ==
    [NODE_ENV : {"development", "production", "test", Undefined},
     DEV_DAL_BYPASS : {"true", "false", "1", Undefined},
     DATABASE_URL : DatabaseUrls,
     VERCEL_ENV : MarkerValues,
     RAILWAY_ENVIRONMENT : MarkerValues,
     HEROKU_APP_NAME : MarkerValues,
     DEV_USER_ID : {Undefined},
     DEV_USER_EMAIL : {Undefined},
     DEV_USER_ROLE : {Undefined}]

\* a local development machine with the bypass switched on
DevEnv ==
    [NODE_ENV |-> "development", DEV_DAL_BYPASS |-> "true",
     DATABASE_URL |-> Url(PREFIX \o LOCALHOST \o <<"/", "a">>),
     VERCEL_ENV |-> Undefined, RAILWAY_ENVIRONMENT |-> Undefined, HEROKU_APP_NAME |-> Undefined,
     DEV_USER_ID |-> Undefined, DEV_USER_EMAIL |-> Undefined, DEV_USER_ROLE |-> Undefined]

\* a production deployment
ProdEnv ==
    [DevEnv EXCEPT !.NODE_ENV = "production", !.DEV_DAL_BYPASS = Undefined,
                   !.DATABASE_URL = Url(PREFIX \o <<"p", "r", "o", "d", ".", "i", "o", "/", "a">>),
                   !.VERCEL_ENV = "production"]

\* the environments the DAL operations are explored in
DalEnvs ==
    { ProdEnv,
      [DevEnv EXCEPT !.DEV_DAL_BYPASS = "false"],
      DevEnv,
      [DevEnv EXCEPT !.DEV_USER_ID = "dev-admin-001", !.DEV_USER_EMAIL = "admin@dev.com", !.DEV_USER_ROLE = "BASIC"],
      [DevEnv EXCEPT !.DEV_USER_ID = "", !.DEV_USER_ROLE = "GUEST"] }

(***************************************************************************)
(* Specifications                                                          *)
(***************************************************************************)
\* no request is being served
DalQuiet ==
    /\ memo = NoMemo
    /\ pc = "idle"
    /\ op = NoOp
    /\ vs = NoRecord
    /\ outcome = NoOutcome
    /\ log = <<>>
    /\ seen = NoneSeen

\* the limiter's store is empty
RateQuiet ==
    /\ store = [i \in Identifiers |-> NoEntry]
    /\ now = RATE_LIMIT_WINDOW
    /\ ticks = 0
    /\ window = [i \in Identifiers |-> NoWindow]
    /\ lastCheck = NoCheck
    /\ fresh = [i \in Identifiers |-> FALSE]

\* no authorize call is running
AuthQuiet ==
    /\ aPc = [p \in Procs |-> "idle"]
    /\ aParsed = [p \in Procs |-> NoCreds]
    /\ aRate = [p \in Procs |-> NoRateLimitResult]
    /\ aUser = [p \in Procs |-> NoRow]
    /\ aResult = [p \in Procs |-> Pending]
    /\ aLog = [p \in Procs |-> <<>>]
    /\ aExit = [p \in Procs |-> ""]
    /\ returned = [x \in Exits |-> {}]

\* no navigation is under way
EdgeQuiet ==
    /\ mw = "template"
    /\ honour = FALSE
    /\ epc = "idle"
    /\ ereq = [pathname |-> Slash, headers |-> {}]
    /\ eresp = NoResponse
    /\ downstream = NotReached
    /\ chain = NoChain

\* no server action is running, nobody has signed in
ActQuiet ==
    /\ sPc = [p \in Procs |-> "idle"]
    /\ sForm = [p \in Procs |-> NoForm]
    /\ sResult = [p \in Procs |-> NoFormState]
    /\ sExit = [p \in Procs |-> ""]
    /\ created = <<>>
    /\ resets = {}
    /\ token = NoToken
    /\ current = Pending
    /\ nav = NoNav

\* the Data Access Layer serving requests, one after the other
Init ==
    /\ env \in DalEnvs
    /\ tier \in Tiers
    /\ locale \in Locales
    /\ session \in Sessions
    /\ users = PasswordTable
    /\ DalQuiet /\ RateQuiet /\ AuthQuiet /\ EdgeQuiet /\ ActQuiet

Next ==
    \/ NewRequest(Sessions)
    \/ CallVerifySession
    \/ CallRequireRole
    \/ GetSecureDataVerify
    \/ GetSecureDataFetch
    \/ CallGetUserTenantData
    \/ CallGetCurrentUser

Spec == Init /\ [][Next]_vars

\* verifySession under every combination of the guard variables
EnvSessions == {NoSession, UserSession("user-1", "PREMIUM")}

\* a token that outlives its user: the row of user-9 has been deleted
DeletedUserSession == UserSession("user-9", "BASIC")

InitEnv ==
    /\ env \in GuardEnvs
    /\ tier = 6
    /\ locale \in Locales
    /\ session \in EnvSessions \cup {DeletedUserSession}
    /\ users = PasswordTable
    /\ DalQuiet /\ RateQuiet /\ AuthQuiet /\ EdgeQuiet /\ ActQuiet

NextEnv ==
    \/ NewRequest(EnvSessions \cup {DeletedUserSession})
    \/ CallVerifySession
    \/ CallGetCurrentUser

SpecEnv == InitEnv /\ [][NextEnv]_vars

\* the rate limiter called directly, with the clock advancing
InitRate ==
    /\ env = ProdEnv
    /\ tier = 6
    /\ locale = "es"
    /\ session = NoSession
    /\ users = PasswordTable
    /\ DalQuiet /\ RateQuiet /\ AuthQuiet /\ EdgeQuiet /\ ActQuiet

NextRate ==
    \/ Tick
    \/ CallCheckRateLimit

SpecRate == InitRate /\ [][NextRate]_vars

\* the rate limiter checked for both identifiers, with the counter of one
\* of them being reset
NextReset ==
    \/ Tick
    \/ CallCheckRateLimit
    \/ CallResetRateLimit({"alice@example.com"})

SpecReset == InitRate /\ [][NextReset]_vars

\* credential verification: sign-in attempts within one rate-limit window
InitAuth ==
    /\ env \in {ProdEnv, DevEnv}
    /\ tier = 6
    /\ locale = "es"
    /\ session = NoSession
    /\ users \in UserTables
    /\ DalQuiet /\ RateQuiet /\ AuthQuiet /\ EdgeQuiet /\ ActQuiet

\* the sign-in attempts are made one after the other
Sequential == {1}

NextAuth ==
    \/ \E p \in Sequential : AuthorizeStart(p)
    \/ \E p \in Sequential : AuthorizeFind(p)
    \/ \E p \in Sequential : AuthorizeCompare(p)

SpecAuth == InitAuth /\ [][NextAuth]_vars

\* sign-in attempts for one identifier running concurrently within one
\* window: a call gives way to another one at each of its awaits, and
\* nowhere else
InitRace ==
    /\ env = ProdEnv
    /\ tier = 6
    /\ locale = "es"
    /\ session = NoSession
    /\ users = PasswordTable
    /\ DalQuiet /\ RateQuiet /\ AuthQuiet /\ EdgeQuiet /\ ActQuiet

\* the attempts are made for alice, with a well-formed password or none
RaceInput(p) ==
    /\ aParsed'[p].email \in {Undefined, "alice@example.com"}
    /\ aParsed'[p].password \in {Undefined, "S3cret!", "hunter2"}

NextRace ==
    \/ \E p \in Procs : AuthorizeStart(p) /\ RaceInput(p)
    \/ \E p \in Procs : AuthorizeFind(p)
    \/ \E p \in Procs : AuthorizeCompare(p)

SpecRace == InitRace /\ [][NextRace]_vars

\* navigations through the edge filter, in production and with the bypass
InitEdge ==
    /\ env \in {ProdEnv, DevEnv}
    /\ tier = 3
    /\ locale = "es"
    /\ session \in EnvSessions
    /\ users = PasswordTable
    /\ DalQuiet /\ RateQuiet /\ AuthQuiet /\ ActQuiet
    /\ mw \in Variants
    /\ honour = FALSE
    /\ epc = "request"
    /\ ereq \in EdgeRequests
    /\ eresp = NoResponse
    /\ downstream = NotReached
    /\ chain = NoChain

NextEdge ==
    \/ EdgeFilter
    \/ FollowRedirect
    \/ Navigate(EnvSessions)

SpecEdge == InitEdge /\ [][NextEdge]_vars

\* redirect chains: the filters wrapped by auth(...), whose configuration
\* has callbacks.authorized; the wrapper is library code, and both ways it
\* can treat a Response returned by the callback are explored
InitChain ==
    /\ env \in {ProdEnv, DevEnv}
    /\ tier = 3
    /\ locale = "es"
    /\ session \in EnvSessions
    /\ users = PasswordTable
    /\ DalQuiet /\ RateQuiet /\ AuthQuiet /\ ActQuiet
    /\ mw \in Wrapped
    /\ honour \in BOOLEAN
    /\ epc = "request"
    /\ ereq \in EdgeRequests
    /\ eresp = NoResponse
    /\ downstream = NotReached
    /\ chain = NoChain

SpecChain == InitChain /\ [][NextEdge]_vars

\* the server actions: accounts are created between password reset requests
InitActions ==
    /\ env = ProdEnv
    /\ tier = 3
    /\ locale = "es"
    /\ session = NoSession
    /\ users \in UserTables
    /\ DalQuiet /\ RateQuiet /\ AuthQuiet /\ EdgeQuiet /\ ActQuiet

NextActions ==
    \/ \E p \in Sequential : SignupStart(p)
    \/ \E p \in Sequential : SignupFind(p)
    \/ \E p \in Sequential : SignupHash(p)
    \/ \E p \in Sequential : SignupCreate(p)
    \/ CallRequestPasswordReset

SpecActions == InitActions /\ [][NextActions]_vars

\* signup calls running concurrently: a call gives way to another one at
\* each of its awaits
NextSignup ==
    \/ \E p \in Procs : SignupStart(p)
    \/ \E p \in Procs : SignupFind(p)
    \/ \E p \in Procs : SignupHash(p)
    \/ \E p \in Procs : SignupCreate(p)

SpecSignup == InitActions /\ [][NextSignup]_vars

\* sign-in attempts for one identifier made one after the other while the
\* clock advances
NextClock ==
    \/ Tick
    \/ \E p \in Sequential : AuthorizeStart(p) /\ RaceInput(p)
    \/ \E p \in Sequential : AuthorizeFind(p)
    \/ \E p \in Sequential : AuthorizeCompare(p)

SpecClock == InitRace /\ [][NextClock]_vars

\* the sign-in pages, opened from links and from the middleware's redirect
NextNav ==
    \/ OpenSignin
    \/ OpenFromMiddleware
    \/ HandleCredentialsSignIn
    \/ HandleGoogleSignIn

SpecNav == InitActions /\ [][NextNav]_vars

\* requests made with the token of the latest sign-in, while stored roles change
InitToken ==
    /\ env = ProdEnv
    /\ tier = 6
    /\ locale = "es"
    /\ session = NoSession
    /\ users = PasswordTable
    /\ DalQuiet /\ RateQuiet /\ AuthQuiet /\ EdgeQuiet /\ ActQuiet

NextToken ==
    \/ SignIn
    \/ ChangeRole
    \/ NewRequest(TokenSessions(token))
    \/ CallVerifySession
    \/ CallRequireRole

SpecToken == InitToken /\ [][NextToken]_vars

(***************************************************************************)
(* Properties                                                              *)
(***************************************************************************)
Range(f) == {f[i] : i \in DOMAIN f}

\* the six role labels in ascending order, and the rank of a label
RoleOrder == <<"BASIC", "PLUS", "PREMIUM", "PREMIUM_PLUS", "ADMIN", "SUPER_ADMIN">>

RankOf(r) == CHOOSE i \in DOMAIN RoleOrder : RoleOrder[i] = r

\* the last operation was requireRole and verifySession gave it a record
RoleGateRan == op.name = "requireRole" /\ vs.kind = "return"

\* C1: in the six-tier DAL, requireRole(b) on a resolved session whose role
\* a is one of the six labels returns true iff rank(a) >= rank(b), and
\* otherwise redirects to /unauthorized and ends the request.
C1_RoleGate ==
    (RoleGateRan /\ tier = 6 /\ vs.userRole \in Range(RoleOrder)) =>
        IF RankOf(vs.userRole) >= RankOf(op.requiredRole)
        THEN outcome = Returned(JsBool(TRUE)) /\ pc = "idle"
        ELSE outcome = Redirected("/unauthorized") /\ pc = "ended"

\* an ADMIN session has passed a PREMIUM gate
C1_Witness ==
    /\ RoleGateRan /\ tier = 6
    /\ vs.userRole = "ADMIN" /\ op.requiredRole = "PREMIUM"
    /\ outcome.kind = "return"

(***************************************************************************)
(* The bypass guard, stated on the environment                             *)
(***************************************************************************)
GuardNames == {"NODE_ENV", "DEV_DAL_BYPASS", "DATABASE_URL", "VERCEL_ENV", "RAILWAY_ENVIRONMENT", "HEROKU_APP_NAME"}

\* a platform marker counts as set when it has a non-empty value
IsSet(v) == v \notin {Undefined, ""}

\* the searched value has the nine characters of localhost in a row
ContainsLocalhost(u) ==
    /\ u.defined
    /\ \E i \in 1..Len(u.chars) : \E j \in i..Len(u.chars) : SubSeq(u.chars, i, j) = LOCALHOST

\* the guard condition on variable g holds in environment e
ConditionHolds(e, g) ==
    CASE g = "NODE_ENV" -> e.NODE_ENV = "development"
      [] g = "DEV_DAL_BYPASS" -> e.DEV_DAL_BYPASS = "true"
      [] g = "DATABASE_URL" -> ContainsLocalhost(e.DATABASE_URL)
      [] OTHER -> ~IsSet(e[g])

AllGuardsHold(e) == \A g \in GuardNames : ConditionHolds(e, g)

\* the environments that differ from e in one guard variable, whose
\* condition they break
SingleFlips(e) ==
    {f \in GuardEnvs : \E g \in GuardNames :
        /\ ~ConditionHolds(f, g)
        /\ \A h \in GuardNames \ {g} : f[h] = e[h]}

\* the record built from the configuration defaults
Synthetic(rec) ==
    /\ rec.kind = "return"
    /\ rec.userId = "dev-dal-user-id-default"
    /\ rec.userEmail = "dev-dal-default@example.com"
    /\ rec.userRole = "ADMIN"

\* C2: verifySession returns the synthetic identity only in an environment
\* where NODE_ENV is 'development', DEV_DAL_BYPASS is 'true', DATABASE_URL
\* contains 'localhost' and no platform marker is set; and from such an
\* environment, breaking any single one of these conditions makes
\* verifySession stop returning it.
C2_BypassGuard ==
    Synthetic(vs) =>
        /\ AllGuardsHold(env)
        /\ \A f \in SingleFlips(env) : ~Synthetic(VerifySessionBody(f, session, locale))

\* a request without session token got the synthetic identity
C2_Witness == op.name = "verifySession" /\ session = NoSession /\ Synthetic(vs)

(***************************************************************************)
(* The rate limiter                                                        *)
(***************************************************************************)
\* C3: a checkRateLimit call is allowed iff it is one of the first 5 calls
\* of the identifier's 15-minute window; a call made once the time has
\* passed the reset timestamp starts a new window, in which the stored
\* counter restarts from 0 and counts that call as the first.
C3_RateWindow ==
    /\ lastCheck.identifier # "" =>
          lastCheck.result.allowed = (window[lastCheck.identifier].calls <= 5)
    /\ \A i \in Identifiers :
          window[i].open =>
             /\ store[i].has
             /\ store[i].count = window[i].calls
             /\ store[i].resetTime = window[i].start + FifteenMinutes

\* an identifier that was rejected in its previous window has been allowed
\* again by the first call of a new one
C3_Witness ==
    \E i \in Identifiers :
        /\ window[i].index >= 2 /\ window[i].prev >= 6 /\ window[i].calls = 1
        /\ lastCheck.identifier = i /\ lastCheck.result.allowed

\* C19: the k-th checkRateLimit call of an identifier within one window
\* returns remaining = 5 - k for k <= 5 and remaining = 0 for k >= 6; the
\* value is never negative, and from the 6th call on the call is rejected.
C19_Remaining ==
    lastCheck.identifier # "" =>
        LET k == window[lastCheck.identifier].calls IN
        /\ lastCheck.result.remaining = (IF k <= 5 THEN 5 - k ELSE 0)
        /\ lastCheck.result.remaining >= 0
        /\ k >= 6 => (lastCheck.result.allowed = FALSE /\ lastCheck.result.remaining = 0)

\* the seventh call of a window has been rejected with nothing remaining
C19_Witness ==
    /\ lastCheck.identifier # ""
    /\ window[lastCheck.identifier].calls = 7
    /\ lastCheck.result.remaining = 0
    /\ ~lastCheck.result.allowed

\* C23: resetRateLimit(identifier) puts the identifier back in the state
\* of one never seen, whatever was counted before: the next checkRateLimit
\* for it, whenever it is made, is allowed with remaining = 4 and opens a
\* window at the time of that call; resetting an identifier that has no
\* entry, or resetting twice in a row, changes nothing, and a reset leaves
\* the other identifiers as they are.
C23_ResetFresh ==
    /\ \A i \in Identifiers :
          fresh[i] =>
             /\ store[i] = [has |-> FALSE, count |-> 0, resetTime |-> 0]
             /\ checkRateLimit(store, now, i).result =
                    [allowed |-> TRUE, remaining |-> 4, resetTime |-> now + 15 * 60 * 1000]
             /\ resetRateLimit(store, i) = store
    /\ \A i \in Identifiers :
          /\ ~store[i].has => resetRateLimit(store, i) = store
          /\ \A j \in Identifiers \ {i} : resetRateLimit(store, i)[j] = store[j]
    /\ (lastCheck.identifier # "" /\ window[lastCheck.identifier].calls = 1) =>
          lastCheck.result = [allowed |-> TRUE, remaining |-> 4, resetTime |-> lastCheck.at + 15 * 60 * 1000]

\* an identifier that had been rejected was reset and, the time not having
\* advanced, is allowed again with 4 attempts remaining
C23_Witness ==
    \E i \in Identifiers :
        /\ ticks = 0
        /\ window[i].index = 2 /\ window[i].prev >= 6 /\ window[i].calls = 1
        /\ lastCheck.identifier = i
        /\ lastCheck.result.allowed /\ lastCheck.result.remaining = 4

\* C28: the window is fixed: a call for an identifier whose entry has not
\* expired leaves its reset timestamp as the first call of the window set
\* it, whether the call is allowed or rejected; a call for an identifier
\* with no entry, or made once the time exceeds the reset timestamp, sets
\* it to the time of that call + 15 minutes and is allowed as the first of
\* a window, whatever number of rejected calls came before.
C28_FixedWindow ==
    [][\A i \in Identifiers :
          store'[i] # store[i] =>
             IF store[i].has /\ ~(now > store[i].resetTime)
             THEN /\ store'[i].resetTime = store[i].resetTime
                  /\ lastCheck'.result.resetTime = store[i].resetTime
             ELSE /\ store'[i] = [has |-> TRUE, count |-> 1, resetTime |-> now + 15 * 60 * 1000]
                  /\ lastCheck'.identifier = i
                  /\ lastCheck'.result = [allowed |-> TRUE, remaining |-> 4,
                                          resetTime |-> now + 15 * 60 * 1000]
      ]_vars

\* an identifier made seven calls in its first window, the last ones
\* rejected and one of them at the reset timestamp itself, and the call
\* made one millisecond after the reset timestamp was allowed and began a
\* window
C28_Witness ==
    \E i \in Identifiers :
        /\ window[i].index = 2 /\ window[i].prev = 7 /\ window[i].calls = 1
        /\ lastCheck.identifier = i
        /\ lastCheck.at = window[i].start
        /\ lastCheck.result = [allowed |-> TRUE, remaining |-> 4,
                               resetTime |-> lastCheck.at + 15 * 60 * 1000]
        /\ store[i].resetTime = lastCheck.at + 15 * 60 * 1000
        /\ ticks = 2 /\ now = 2 * (15 * 60 * 1000) + 1
        /\ \A j \in Identifiers \ {i} : ~store[j].has

(***************************************************************************)
(* getSecureData                                                           *)
(***************************************************************************)
\* positions of the log at which the data fetcher was invoked
FetcherCalls == {i \in DOMAIN log : log[i][1] = "dataFetcher"}

\* C4: in getSecureData the callback is invoked only after verifySession
\* has returned a record to this call, with exactly the subject id of that
\* record; when verifySession redirects, the callback is never invoked.
C4_FetchAfterVerify ==
    /\ \A i \in FetcherCalls :
          /\ op.name = "getSecureData"
          /\ vs.kind = "return"
          /\ \E j \in 1..(i - 1) : log[j] = <<"verifySession", "return">>
          /\ log[i][2] = vs.userId
          /\ Cardinality(FetcherCalls) = 1
    /\ (op.name = "getSecureData" /\ vs.kind # "return") =>
          /\ FetcherCalls = {}
          /\ pc # "fetch"

\* the callback has run with the id of the session's user
C4_Witness ==
    /\ op.name = "getSecureData"
    /\ session.id = "user-1"
    /\ \E i \in FetcherCalls : log[i][2] = "user-1"

\* getSecureData has run a callback that failed
FetcherFailed ==
    /\ op.name = "getSecureData"
    /\ FetcherCalls # {}
    /\ op.fetcher # "resolves"

\* C9: when the callback of getSecureData fails, the caller gets the
\* generic error 'Data access denied', and neither the original error nor
\* its message.
C9_GenericError ==
    FetcherFailed =>
        /\ outcome.kind = "throw"
        /\ outcome.error.message = "Data access denied"
        /\ outcome.error # FetcherOutcome(op.fetcher, vs.userId).error
        /\ outcome.error.message # FetcherOutcome(op.fetcher, vs.userId).error.message

\* a rejected storage query has been replaced by the generic error
C9_Witness == FetcherFailed /\ op.fetcher = "rejects" /\ outcome.kind = "throw"

(***************************************************************************)
(* authorize                                                               *)
(***************************************************************************)
\* C5: authorize returns the same value when the identifier is unknown
\* and when the identifier exists and the password is wrong.
C5_UniformFailure ==
    \A v \in returned["nouser"] : \A w \in returned["mismatch"] : v = w

\* both failures have occurred
C5_Witness == returned["nouser"] # {} /\ returned["mismatch"] # {}

\* C6 as claimed: the value authorize returns for a rate-limited attempt
\* differs from the one it returns for an unknown identifier or a wrong
\* password.
C6_DistinctSignals ==
    \A v \in returned["rate"] : \A w \in returned["nouser"] \cup returned["mismatch"] : v # w

\* C6 as amended: a rate-limited attempt makes authorize return null, the
\* value it also returns for an unknown identifier and for a wrong
\* password; the rejection shows only in the result of checkRateLimit
\* (allowed = false, remaining = 0), which authorize does not return.
C6_SingleFailureSignal ==
    /\ \A x \in {"rate", "nouser", "mismatch"} : returned[x] \subseteq {Null}
    /\ \A p \in Procs :
          aExit[p] = "rate" =>
             /\ aResult[p] = Null
             /\ aRate[p].allowed = FALSE
             /\ aRate[p].remaining = 0

\* an attempt was rejected by the limiter after another failed on the password
C6_Witness ==
    /\ \E p \in Procs : aExit[p] = "rate"
    /\ returned["mismatch"] # {}

\* the limiter has rejected the attempt of authorize call p
Rejected(p) ==
    /\ <<"checkRateLimit", aParsed[p].email>> \in Range(aLog[p])
    /\ ~aRate[p].allowed

\* two authorize calls for the same identifier are under way at once, both
\* past their checkRateLimit
Overlapping ==
    /\ aPc[1] \in {"find", "compare"}
    /\ aPc[2] \in {"find", "compare"}
    /\ aParsed[1].email = aParsed[2].email

\* C20 as claimed: credential checks for one identifier that run
\* concurrently lose an increment: once two calls overlap, fewer attempts
\* are counted than were made, which lets more than 5 attempts of a window
\* through.
C20_LostIncrement ==
    Overlapping => store[aParsed[1].email].count < window[aParsed[1].email].calls

\* C20 as amended: concurrent credential checks for one identifier lose no
\* increment. checkRateLimit runs without suspension between reading and
\* writing the counter, so in every interleaving of the calls the counter
\* equals the attempts made in the window, a call is let through exactly
\* when it is one of the first 5, and two calls under way at once have each
\* consumed an attempt of their own.
C20_NoLostIncrement ==
    /\ \A i \in Identifiers :
          window[i].open => (store[i].has /\ store[i].count = window[i].calls)
    /\ lastCheck.identifier # "" =>
          lastCheck.result.allowed = (window[lastCheck.identifier].calls <= 5)
    /\ \A p \in Procs :
          aPc[p] \in {"find", "compare"} =>
             /\ aRate[p].allowed
             /\ aRate[p].remaining <= 4
    /\ Overlapping => aRate[1].remaining # aRate[2].remaining

\* a sixth attempt was rejected while the fifth was still under way
C20_Witness ==
    \E p, q \in Procs :
        /\ aPc[p] \in {"find", "compare"} /\ aRate[p].remaining = 0
        /\ aExit[q] = "rate"
        /\ store["alice@example.com"].count = 6

\* C7: an authorize call whose checkRateLimit returned allowed = false
\* ends without the identity lookup and without the password comparison.
C7_FailClosed ==
    \A p \in Procs :
        Rejected(p) =>
            /\ aPc[p] = "done"
            /\ aUser[p] = NoRow
            /\ \A i \in DOMAIN aLog[p] : aLog[p][i][1] \notin {"prisma.user.findUnique", "bcrypt.compare"}

\* a sixth attempt for a registered identifier has been rejected
C7_Witness ==
    \E p \in Procs : Rejected(p) /\ aParsed[p].email = "alice@example.com" /\ aPc[p] = "done"

(***************************************************************************)
(* verifySession on the normal path                                        *)
(***************************************************************************)
\* auth() yields no user id
TokenAbsentOrInvalid(s) == s.hasUser = FALSE \/ s.id \in {Undefined, ""}

\* an operation of the request has called verifySession on the normal
\* path without a valid token
UnauthenticatedCall == op.name # "" /\ ~AllGuardsHold(env) /\ TokenAbsentOrInvalid(session)

\* every record verifySession gives out is authenticated and names a subject
RecordsAuthenticated == vs.kind = "return" => (vs.isAuth = TRUE /\ vs.userId \notin {Undefined, ""})

\* C8 as claimed: without a valid token verifySession does not return but
\* redirects to the sign-in path of the request's locale, /{locale}/signin;
\* every record it returns is authenticated with a non-empty subject id.
C8_LocaleSignIn ==
    /\ UnauthenticatedCall =>
          /\ vs.kind = "redirect"
          /\ outcome = Redirected("/" \o locale \o "/signin")
    /\ RecordsAuthenticated

\* C8 as amended: without a valid token verifySession does not return but
\* redirects to /es/signin, the sign-in path of the default locale,
\* whatever the locale of the request; every record it returns is
\* authenticated with a non-empty subject id.
C8_DefaultLocaleSignIn ==
    /\ UnauthenticatedCall =>
          /\ vs.kind = "redirect"
          /\ outcome = Redirected("/es/signin")
          /\ pc = "ended"
    /\ RecordsAuthenticated

\* a request in English without token has been sent to the Spanish sign-in
C8_Witness == UnauthenticatedCall /\ locale = "en" /\ outcome.kind = "redirect"

(***************************************************************************)
(* verifySession on the bypass path                                        *)
(***************************************************************************)
\* the configured value, or its default when none is configured
ConfigOr(v, d) == IF IsSet(v) THEN v ELSE d

\* the identity the configuration describes
ConfiguredIdentity(e) ==
    [isAuth |-> TRUE,
     userId |-> ConfigOr(e.DEV_USER_ID, "dev-dal-user-id-default"),
     userEmail |-> ConfigOr(e.DEV_USER_EMAIL, "dev-dal-default@example.com"),
     userRole |-> ConfigOr(e.DEV_USER_ROLE, "ADMIN")]

\* C11: with the bypass active, verifySession returns the identity made of
\* DEV_USER_ID, DEV_USER_EMAIL and DEV_USER_ROLE, each replaced by its fixed
\* default when not configured, whatever token the request carries; it
\* never runs auth() and touches no storage: all it does is print.
C11_BypassIdentity ==
    (AllGuardsHold(env) /\ memo.has) =>
        /\ memo.rec.kind = "return"
        /\ \A k \in DOMAIN ConfiguredIdentity(env) : memo.rec[k] = ConfiguredIdentity(env)[k]
        /\ seen.authRuns = 0
        /\ op.name = "verifySession" => \A i \in DOMAIN log : log[i][1] = "console.log"
        /\ users = PasswordTable
        /\ \A i \in Identifiers : ~store[i].has

\* a request carrying the token of user-1 got the configured identity
C11_Witness ==
    /\ AllGuardsHold(env)
    /\ op.name = "verifySession" /\ log # <<>>
    /\ session.id = "user-1"
    /\ env.DEV_USER_ID = "dev-admin-001" /\ vs.userId = "dev-admin-001" /\ vs.userRole = "BASIC"

\* C12: within one request auth() runs at most once, however many DAL
\* operations call verifySession, and all of them get the same record; the
\* memoized result is the one obtained in the current request, for the
\* token of the current request, never one of an earlier request.
C12_MemoizedPerRequest ==
    /\ seen.authRuns <= 1
    /\ Cardinality(seen.records) <= 1
    /\ memo.has =>
          /\ seen.records = {memo.rec}
          /\ vs = memo.rec
          /\ (~AllGuardsHold(env) /\ memo.rec.kind = "return") =>
                 /\ seen.authRuns = 1
                 /\ memo.rec.userId = session.id
                 /\ memo.rec.userRole = session.role
    /\ ~memo.has => seen = [authRuns |-> 0, records |-> {}]

\* a later operation of a request got the record without a run of auth()
C12_Witness ==
    /\ op.name = "getSecureData" /\ pc = "fetch"
    /\ \A i \in DOMAIN log : log[i][1] # "auth()"
    /\ seen.authRuns = 1
    /\ vs.userId = "user-1"

(***************************************************************************)
(* getUserTenantData                                                       *)
(***************************************************************************)
\* User.tenantId of the schema: user-1 is a member of tenant-a, and of no
\* other tenant
BelongsTo(userId, tenantId) == userId = "user-1" /\ tenantId = "tenant-a"

\* C13 as claimed: getUserTenantData(tenantId) returns only when the
\* resolved user belongs to the tenant tenantId; for a user who does not
\* belong to it, a call whose query succeeds redirects to /unauthorized.
C13_TenantIsolation ==
    (op.name = "getUserTenantData" /\ vs.kind = "return") =>
        /\ outcome.kind = "return" => BelongsTo(vs.userId, op.tenantId)
        /\ (~BelongsTo(vs.userId, op.tenantId) /\ outcome.kind # "throw") =>
               outcome = Redirected("/unauthorized")

PublicAuthPaths(v) ==
    {P3(W.es, W.auth, W.signin), P3(W.en, W.auth, W.signup), P3(W.es, W.auth, W.forgot)}
    \cup (IF v = "hardened" THEN {P3(W.en, W.auth, W.reset)} ELSE {})

ProtectedPaths(v) ==
    IF v = "hardened"
    THEN LocalizedPaths \ PublicAuthPaths(v)
    ELSE {P2(W.es, W.dashboard), P3(W.en, W.dashboard, W.settings), P2(W.es, W.dashboardx),
          P2(W.en, W.profile), P2(W.es, W.settings)}

\* /es or /en, as the path says
PrefixOf(pathname) == SubSeq(pathname, 1, 3)

Handled == epc = "response" /\ eresp.by # "unmatched"

\* C16 as claimed: every response of the filter to a request it handles,
\* pass-through or redirect, carries X-Frame-Options,
\* X-Content-Type-Options, Referrer-Policy, X-XSS-Protection and
\* Strict-Transport-Security.
C16_SecurityHeaders ==
    Handled =>
        {"X-Frame-Options", "X-Content-Type-Options", "Referrer-Policy",
         "X-XSS-Protection", "Strict-Transport-Security"} \subseteq eresp.headers

\* C17 as claimed: the request that continues downstream after the filter
\* carries neither x-middleware-subrequest nor x-forwarded-middleware.
C17_InboundHeadersRemoved ==
    (Handled /\ downstream.reached) =>
        downstream.headers \cap {"x-middleware-subrequest", "x-forwarded-middleware"} = {}

\* C18 as claimed: with the bypass active and no session token, a request
\* for a locale-prefixed protected path is let through by the filter, as
\* it is given an identity by verifySession.
C18_BypassInBothLayers ==
    (/\ Handled
     /\ mw \in {"template", "hardened"}
     /\ AllGuardsHold(env)
     /\ session = NoSession
     /\ ereq.pathname \in ProtectedPaths(mw)) =>
        /\ VerifySessionBody(env, session, locale).kind = "return"
        /\ eresp.kind = "next"

(***************************************************************************)
(* requireRole and unknown labels                                          *)
(***************************************************************************)
\* the labels of the rank table of each copy
RecognizedLabels(t) == IF t = 6 THEN Range(RoleOrder) ELSE {"USER", "ADMIN", "SUPER_ADMIN"}

\* C10: requireRole redirects to /unauthorized when the role of the
\* session is not a label of the rank table, whatever role is required;
\* it returns nothing but true, and never after issuing a redirect.
C10_UnknownRole ==
    /\ (RoleGateRan /\ vs.userRole \notin RecognizedLabels(tier)) =>
          outcome = Redirected("/unauthorized") /\ pc = "ended"
    /\ op.name = "requireRole" =>
          /\ outcome.kind \in {"return", "redirect"}
          /\ outcome.kind = "return" =>
                /\ outcome.value = JsBool(TRUE)
                /\ \A i \in DOMAIN log : log[i][1] # "redirect"
          /\ (\E i \in DOMAIN log : log[i][1] = "redirect") =>
                outcome.kind = "redirect" /\ pc = "ended"

\* a session with an unknown label has been turned away at the lowest gate
C10_Witness ==
    /\ RoleGateRan
    /\ vs.userRole = "GUEST"
    /\ op.requiredRole \in {"BASIC", "USER"}
    /\ outcome.kind = "redirect"

(***************************************************************************)
(* getCurrentUser                                                          *)
(***************************************************************************)
\* the stored record of subject id i, or null when there is none
StoredOrNull(i) ==
    {[kind |-> "null", id |-> Undefined, email |-> Undefined, name |-> Undefined, role |-> Undefined]}
    \cup {[kind |-> "user", id |-> users[e].id, email |-> users[e].email, name |-> users[e].name, role |-> users[e].role] :
            e \in {x \in Identifiers : users[x].found /\ users[x].id = i}}

\* C25 as claimed: getCurrentUser returns an identity whose email and role
\* are the configuration values or their defaults only in an environment
\* where the whole bypass guard of verifySession holds; where the bypass is
\* inactive it returns the stored record of the resolved subject id, or
\* null.
C25_ConfigUnderGuardOnly ==
    (op.name = "getCurrentUser" /\ vs.kind = "return" /\ ~AllGuardsHold(env)) =>
        current \in StoredOrNull(vs.userId)

(***************************************************************************)
(* The sign-in pages                                                       *)
(***************************************************************************)
\* the sign-in page has navigated, or has handed a target to the provider flow
Navigated == nav.stage \in {"pushed", "google"}

\* the query value is a path under the locale of the page with no scheme in it
UnderLocale(loc, url) ==
    /\ Len(url) >= Len(loc) + 2
    /\ SubSeq(url, 1, Len(loc) + 2) = <<"/">> \o loc \o <<"/">>
    /\ ~\E i \in 1..(Len(url) - 2) : SubSeq(url, i, i + 2) = <<":", "/", "/">>

\* C30 as claimed: the target of the navigation after a sign-in is the
\* callbackUrl query value when that value starts with '/{locale}/' and
\* contains no '://', and '/{locale}/dashboard' for every other value; a
\* sign-in never navigates to a target that does not start with
\* '/{locale}/'.
C30_TargetUnderLocale ==
    Navigated =>
        /\ nav.target = (IF UnderLocale(nav.locale, nav.callbackUrl)
                         THEN nav.callbackUrl
                         ELSE <<"/">> \o nav.locale \o <<"/", "d", "a", "s", "h", "b", "o", "a", "r", "d">>)
        /\ Len(nav.target) >= Len(nav.locale) + 2
        /\ SubSeq(nav.target, 1, Len(nav.locale) + 2) = <<"/">> \o nav.locale \o <<"/">>

\* the statement restricted to the page that has validateCallbackUrl
ValidatedPageUnderLocale == nav.page = "(auth)/signin" => C30_TargetUnderLocale

(***************************************************************************)
(* Redirect chains                                                         *)
(***************************************************************************)
\* the return statements that redirect for authentication
AuthRedirects == {"signin", "dashboard", "authorized"}

WellFormed(p) == aExit'[p] # "format" /\ aParsed'[p].email \in Identifiers

\* authorize call p starts in this step
Starts(p) ==
    /\ aPc[p] \in {"idle", "done"}
    /\ aParsed'[p] # aParsed[p] \/ aRate'[p] # aRate[p] \/ aLog'[p] # aLog[p] \/ aExit'[p] # aExit[p]

\* the window of identifier i is running: it has an entry that has not expired
InWindow(i) == store[i].has /\ store[i].resetTime >= now

\* C27: every authorize call with well-formed credentials adds one to the
\* counter of its identifier, whatever its outcome, and no later step of
\* the call, a successful verification included, changes the counter; so a
\* call made when 5 calls were counted in the running window fails, also
\* with the correct password; a call that fails the format check leaves
\* the store as it is.
C27_AttemptsConsumed ==
    [][\A p \in Procs :
          /\ (Starts(p) /\ WellFormed(p)) =>
                /\ store'[aParsed'[p].email].count =
                      (IF InWindow(aParsed'[p].email) THEN store[aParsed'[p].email].count + 1 ELSE 1)
                /\ (InWindow(aParsed'[p].email) /\ store[aParsed'[p].email].count >= 5) =>
                      (aPc'[p] = "done" /\ aExit'[p] = "rate" /\ aResult'[p].kind = "null")
          /\ (Starts(p) /\ ~WellFormed(p)) => store' = store
          /\ (aPc[p] \in {"find", "compare"} /\ aPc'[p] # aPc[p]) => store' = store
          /\ aExit'[p] = "success" =>
                (store'[aParsed'[p].email].count <= 5 /\ aRate'[p].allowed)
      ]_vars

\* within one window, after a successful sign-in and four more attempts, a
\* sixth attempt with the correct password has been rejected
C27_Witness ==
    \E p \in Procs :
        /\ ticks = 0
        /\ returned["success"] # {}
        /\ aExit[p] = "rate" /\ aParsed[p].password = "S3cret!"
        /\ store["alice@example.com"].count = 6

(***************************************************************************)
(* The role in the token                                                   *)
(***************************************************************************)
\* the stored role of the subject of the token
StoredRole == users[token.email].role

\* C26: the role requireRole compares is the one written into the token at
\* sign-in: a request made with an issued token gets from requireRole the
\* outcome of the role the identity had when it signed in, whatever its
\* stored role has become since, until a new sign-in replaces the token.
C26_RoleFromToken ==
    /\ token.issued => token.role = token.stored
    /\ (session.hasUser /\ token.issued) => session.role = token.stored
    /\ (RoleGateRan /\ token.issued) =>
          outcome = RequireRoleOutcome(tier, token.stored, op.requiredRole)

\* a user signed in as ADMIN and since demoted to BASIC has passed the ADMIN gate
C26_Witness ==
    /\ RoleGateRan /\ token.issued
    /\ token.stored = "ADMIN" /\ StoredRole = "BASIC"
    /\ op.requiredRole = "ADMIN"
    /\ outcome.kind = "return"

(***************************************************************************)
(* The server actions                                                      *)
(***************************************************************************)
\* the password reset requests with a well-formed email whose lookup succeeded
Looked == {r \in resets : r.email \in {"alice@example.com", "nobody@example.com"} /\ r.lookupOk}

\* C21: requestPasswordReset does not tell whether an account exists: for
\* well-formed emails and a lookup that succeeds, the FormState returned is
\* the same for a registered and for an unregistered email, the message 'If
\* an account exists with this email, ...' without field errors.
C21_NoEnumeration ==
    \A a \in Looked : \A b \in Looked :
        /\ a.reply = b.reply
        /\ a.reply.errors = {}
        /\ a.reply.message = "If an account exists with this email, you will receive password reset instructions."

\* a reset was requested for a registered and for an unregistered email
C21_Witness == \E a \in Looked : \E b \in Looked : a.registered /\ ~b.registered

CreatedWith(e) == {i \in DOMAIN created : created[i].email = e}

\* signup call p has returned for a submission that passed validation
Completed(p) == sPc[p] = "done" /\ sExit[p] # "invalid"

\* at most one row per email is created, none for an email that had a row,
\* and at most one call has the success message for an email
OneIdentity ==
    /\ \A e \in Identifiers : Cardinality(CreatedWith(e)) <= 1
    /\ CreatedWith("alice@example.com") = {}
    /\ \A p \in Procs : \A q \in Procs :
          (/\ p # q
           /\ Completed(p) /\ Completed(q)
           /\ sForm[p].email = sForm[q].email
           /\ sResult[p].message = "Account created successfully! Please sign in.") =>
              sResult[q].message # "Account created successfully! Please sign in."
    /\ \A p \in Procs :
          (Completed(p) /\ sResult[p].message = "Account created successfully! Please sign in.") =>
              CreatedWith(sForm[p].email) # {}

\* C24 as claimed: for concurrent signup calls with the same valid email at
\* most one identity is created, at most one call returns the success
\* message, and every other call returns 'A user with this email already
\* exists.'
C24_UniqueOrExists ==
    /\ OneIdentity
    /\ \A p \in Procs :
          (Completed(p) /\ sResult[p].message # "Account created successfully! Please sign in.") =>
              sResult[p].message = "A user with this email already exists."

\* C24 as amended: for concurrent signup calls with the same valid
\* submission at most one identity is created and at most one call returns
\* the success message; every other call whose storage operations work
\* returns 'A user with this email already exists.', from the existence
\* check or from the unique index (P2002); a call whose query or insert
\* fails for another reason returns 'An unexpected error occurred. Please
\* try again.' and creates nothing.
C24_UniqueEmail ==
    /\ OneIdentity
    /\ \A p \in Procs :
          Completed(p) =>
             /\ sExit[p] \in {"exists", "P2002"} <=> sResult[p].message = "A user with this email already exists."
             /\ sExit[p] = "created" <=> sResult[p].message = "Account created successfully! Please sign in."
             /\ sExit[p] = "error" <=> sResult[p].message = "An unexpected error occurred. Please try again."
             /\ sExit[p] \in {"exists", "P2002"} => users[sForm[p].email].found
             /\ sResult[p].errors = {}

\* both calls passed the existence check; one created the identity and the
\* other was stopped by the unique index
C24_Witness ==
    \E p \in Procs : \E q \in Procs :
        /\ sExit[p] = "created" /\ sExit[q] = "P2002"
        /\ sForm[p].email = sForm[q].email
        /\ Cardinality(CreatedWith(sForm[p].email)) = 1

====
